---- MODULE Spec2Model ----
(***************************************************************************)
(* A model of SanityEngine's render hardware interface: the D3D12 render   *)
(* device's command-list submission, frame fences and completion worker,   *)
(* the mesh data store, the material data buffer and the bind group        *)
(* builders.                                                               *)
(***************************************************************************)
EXTENDS Integers, Sequences, FiniteSets, TLC

\* ------------------------------------------------------------------ bounds

\* num_frames: the swapchain's buffer count, given to the device's constructor.
NumFrames == 2

\* How many times render_scene is called.
MaxFrames == 3

\* How many command lists the threads of SpecConcurrent submit between them.
MaxConcurrentLists == 3

\* How many command lists are submitted around the destruction of the device.
MaxShutdownLists == 2

\* How many create_ calls, and how many staging buffers are ever created.
MaxCreateCalls == 2

MaxStagingBuffers == 2

\* How many command lists are submitted between the create_ calls.
MaxCreateLists == 1

\* How many framebuffers are alive at once, how many render targets one has, and
\* how many descriptors a heap holds.
MaxFramebuffers == 2

MaxRenderTargets == 2

MaxDescriptors == 4

\* How many images the Renderer creates.
MaxImages == 3

\* How many times DenoiserPass::render is called.
MaxDenoiserFrames == 3

\* How many adapters EnumAdapters gives.
MaxAdapters == 2

\* How many add_mesh calls, and how many begin/end pairs.
MaxMeshes == 3

MaxMeshRounds == 2

\* How many get_next_free_material calls.
MaxMaterials == 4

\* How many set_buffer, set_image and set_image_array calls before build.
MaxBindCalls == 2

\* std::vector<RootParameter> root_parameters{64}, and ENSURE(idx < 64).
MaxRootParameters == 64

\* ENSURE(idx < 32).
MaxRootDescriptors == 32

\* sizeof(StandardVertex): two vec3, two uint32_t and a vec2.
SizeofStandardVertex == 40

\* sizeof(Uint32).
SizeofUint32 == 4

\* The value a command list's fence is signaled with.
CPU_FENCE_SIGNALED == 1

\* ------------------------------------------------------------------- state

VARIABLES
    \* ---- D3D12RenderDevice
    pc,                       \* each thread's position
    ret,                      \* where a thread's submit_command_list call returns to
    cmds,                     \* the command list a thread is submitting (0: none)
    next_list,                \* command lists created so far
    list_name,                \* each command list's debug name
    cur_swapchain_idx,        \* swapchain->GetCurrentBackBufferIndex()
    frame_fence_values,       \* frame_fence_values[i]
    frame_fences,             \* completed value of frame_fences[i]
    direct_command_queue,     \* every operation put on the queue, in order
    gpu_retired,              \* how many of them the GPU has retired
    command_list_done_fence,  \* completed value of each list's own fence
    in_flight_command_lists,  \* queue of (fence, list) pairs
    done_command_lists,       \* queue of lists
    should_thread_continue,
    should_continue,          \* the worker's local copy
    wpc,                      \* the worker's position
    cur_pair,                 \* the worker's local pair (0: none)
    event,                    \* the worker's auto-reset event
    event_fences,             \* fences that will set the event on completion
    frames_begun,             \* begin_frame calls so far
    \* ---- history
    submit_order,             \* lists in the order submit_command_list was called
    in_flight_order,          \* lists in the order they entered the in-flight queue
    completed,                \* lists in the order their completion functions ran
    deleted,                  \* lists deleted
    last_end_frame_signal,    \* per slot, the value the last end_frame signaled
    \* ---- MeshDataStore
    next_free_vertex_byte,
    next_vertex_offset,
    next_index_offset,
    index_buffer,             \* the index buffer's contents, element p at p + 1
    adding_meshes,            \* between begin_adding_meshes and end_adding_meshes
    vertex_buffer_state,      \* the resource state of the vertex buffer
    index_buffer_state,
    barrier_errors,           \* the barriers whose before-state was not the state
    mesh_round,               \* begin_adding_meshes calls so far
    meshes,                   \* history: each add_mesh call's input and returned Mesh
    \* ---- MaterialDataBuffer
    num_allocated_bytes,
    materials,                \* history: each get_next_free_material call and its handle
    \* ---- D3D12BindGroupBuilder and D3D12MaterialBuilder
    builder,                  \* which builder has been constructed, "none" before
    should_do_validation,
    root_descriptor_descriptions,
    descriptor_table_descriptor_mappings,
    descriptor_table_handles,
    descriptors,
    bound_buffers,
    bound_images,
    bind_calls,               \* set_buffer, set_image and set_image_array calls so far
    build_called,
    build_result,             \* what build returned: "none", "bind_group" or "material"
    root_parameters,          \* the root parameters of the returned bind group
    views,                    \* per descriptor, the views update_descriptors created
    warnings,                 \* lines logged with spdlog::warn
    aborted,                  \* an ENSURE or RX_ASSERT has failed
    \* ---- D3D12RenderDevice: creation of resources and pipelines, staging buffers
    staging_buffers,          \* the pool, each buffer given by its size
    staging_buffer_idx,
    staging_in_use,           \* staging buffers handed out and not yet returned
    created,                  \* the latest create_ call and what it returned
    create_calls,
    errors_logged,            \* lines logged with spdlog::error
    \* ---- DescriptorAllocator and the framebuffers of D3D12RenderDevice
    rtv_allocator,            \* [next_free_descriptor, available_handles]
    dsv_allocator,
    framebuffers,             \* the framebuffers created and not destroyed
    created_framebuffer,      \* the latest create_framebuffer call and what it returned
    \* ---- Renderer: the images
    image_name_to_index,
    all_images,
    image_handles,            \* what each create_image returned, in order
    \* ---- DenoiserPass
    denoised_color_target_handle,
    accumulation_target_handle,
    denoiser_frames,          \* calls of render so far
    render_entry_states,      \* the states of the two images when render was last entered
    denoiser_barrier_errors,  \* the barriers whose before-state was not the state
    \* ---- D3D12RenderDevice::select_adapter
    adapters,                 \* the adapters EnumAdapters gave, in order
    adapter,                  \* the index in adapters of the adapter chosen, 0 for none
    device,                   \* whether a device was kept
    adapter_warnings,         \* lines logged with spdlog::warn
    select_state,             \* "not run", "selected" or "critical_error"
    \* ---- the mutexes of D3D12RenderDevice
    in_flight_command_lists_mutex,  \* the thread holding it, "none" when free
    done_command_lists_mutex,       \* the thread holding it, "none" when free
    unguarded_accesses        \* accesses to a queue made without its mutex

devVars == <<pc, ret, cmds, next_list, list_name, cur_swapchain_idx, frame_fence_values,
             frame_fences, direct_command_queue, gpu_retired, command_list_done_fence,
             in_flight_command_lists, done_command_lists, should_thread_continue,
             should_continue, wpc, cur_pair, event, event_fences, frames_begun,
             submit_order, in_flight_order, completed, deleted, last_end_frame_signal>>

meshVars == <<next_free_vertex_byte, next_vertex_offset, next_index_offset, index_buffer,
              adding_meshes, mesh_round, meshes, vertex_buffer_state, index_buffer_state,
              barrier_errors>>

matVars == <<num_allocated_bytes, materials>>

bindVars == <<builder, should_do_validation, root_descriptor_descriptions,
              descriptor_table_descriptor_mappings, descriptor_table_handles, descriptors,
              bound_buffers, bound_images, bind_calls, build_called, build_result,
              root_parameters, views, warnings, aborted>>

resVars == <<staging_buffers, staging_buffer_idx, staging_in_use, created, create_calls,
             errors_logged>>

descVars == <<rtv_allocator, dsv_allocator, framebuffers, created_framebuffer>>

imgVars == <<image_name_to_index, all_images, image_handles>>

denoiserVars == <<denoised_color_target_handle, accumulation_target_handle, denoiser_frames,
                  render_entry_states, denoiser_barrier_errors>>

adapterVars == <<adapters, adapter, device, adapter_warnings, select_state>>

lockVars == <<in_flight_command_lists_mutex, done_command_lists_mutex, unguarded_accesses>>

vars == <<devVars, meshVars, matVars, bindVars, resVars, descVars, imgVars, denoiserVars,
          adapterVars, lockVars>>

notDevNorLockVars == <<meshVars, matVars, bindVars, resVars, descVars, imgVars,
                       denoiserVars, adapterVars>>

notDevVars == <<notDevNorLockVars, lockVars>>

notMeshVars == <<devVars, matVars, bindVars, resVars, descVars, imgVars,
                denoiserVars, adapterVars, lockVars>>

notMatVars == <<devVars, meshVars, bindVars, resVars, descVars, imgVars,
                denoiserVars, adapterVars, lockVars>>

notBindVars == <<devVars, meshVars, matVars, resVars, descVars, imgVars,
                denoiserVars, adapterVars, lockVars>>

notResVars == <<devVars, meshVars, matVars, bindVars, descVars, imgVars,
                denoiserVars, adapterVars, lockVars>>

notDescVars == <<devVars, meshVars, matVars, bindVars, resVars, imgVars,
                denoiserVars, adapterVars, lockVars>>

\* Everything but the images of the Renderer and the DenoiserPass, which uses them.
notImgVars == <<devVars, meshVars, matVars, bindVars, resVars, descVars, adapterVars,
               lockVars>>

notAdapterVars == <<devVars, meshVars, matVars, bindVars, resVars, descVars, imgVars,
                    denoiserVars, lockVars>>

Threads == {"render", "loader"}

MaxLists == 3 * MaxFrames

Lists == 1..MaxLists

Slots == 0..(NumFrames - 1)

\* ----------------------------------------------------------------- helpers

Range(s) == {s[i] : i \in DOMAIN s}

Count(s, x) == Cardinality({i \in DOMAIN s : s[i] = x})

Pos(s, x) == CHOOSE i \in DOMAIN s : s[i] = x

\* --------------------------------------------------------- D3D12RenderDevice

DevInit ==
    /\ pc = [t \in Threads |-> "idle"]
    /\ ret = [t \in Threads |-> "idle"]
    /\ cmds = [t \in Threads |-> 0]
    /\ next_list = 0
    /\ list_name = [l \in Lists |-> "none"]
    /\ cur_swapchain_idx = 0
    /\ frame_fence_values = [i \in Slots |-> 0]
    /\ frame_fences = [i \in Slots |-> 0]
    /\ direct_command_queue = <<>>
    /\ gpu_retired = 0
    /\ command_list_done_fence = [l \in Lists |-> 0]
    /\ in_flight_command_lists = <<>>
    /\ done_command_lists = <<>>
    /\ should_thread_continue = TRUE
    /\ should_continue = TRUE
    /\ wpc = "start"
    /\ cur_pair = 0
    /\ event = FALSE
    /\ event_fences = {}
    /\ frames_begun = 0
    /\ submit_order = <<>>
    /\ in_flight_order = <<>>
    /\ completed = <<>>
    /\ deleted = {}
    /\ last_end_frame_signal = [i \in Slots |-> 0]

\* create_render_command_list, then set_debug_name: thread t holds a new list.
CreateCommandList(t, name, return_to) ==
    /\ next_list < MaxLists
    /\ next_list' = next_list + 1
    /\ list_name' = [list_name EXCEPT ![next_list + 1] = name]
    /\ cmds' = [cmds EXCEPT ![t] = next_list + 1]
    /\ ret' = [ret EXCEPT ![t] = return_to]
    /\ pc' = [pc EXCEPT ![t] = "submit_execute"]

\* execute_completion_functions for every list of the done queue, front first.
CompletionRuns(q) == q

\* begin_frame, first block: under done_command_lists_mutex, pop every done list,
\* run its completion functions and delete it.
BeginFrameDrain ==
    /\ pc["render"] = "idle"
    /\ frames_begun < MaxFrames
    /\ frames_begun' = frames_begun + 1
    /\ completed' = completed \o CompletionRuns(done_command_lists)
    /\ deleted' = deleted \cup Range(done_command_lists)
    /\ done_command_lists' = <<>>
    /\ pc' = [pc EXCEPT !["render"] = "bf_wait"]
    /\ UNCHANGED notDevVars
    /\ UNCHANGED <<ret, cmds, next_list, list_name, cur_swapchain_idx, frame_fence_values,
                   frame_fences, direct_command_queue, gpu_retired, command_list_done_fence,
                   in_flight_command_lists, should_thread_continue, should_continue, wpc,
                   cur_pair, event, event_fences, submit_order, in_flight_order,
                   last_end_frame_signal>>

\* Mutant: the wait gives up after a while.
FrameReady_Timeout(frame_index) == TRUE

\* wait_for_frame returns: the fence has reached frame_fence_values[frame_index],
\* at once or after WaitForSingleObject(frame_event, INFINITE).
FrameReady(frame_index) == frame_fences[frame_index] >= frame_fence_values[frame_index]

\* begin_frame, the rest: wait_for_frame, advance the slot's fence value, record
\* the transition to render target and go on to submit it.
BeginFrameWait ==
    /\ pc["render"] = "bf_wait"
    /\ FrameReady(cur_swapchain_idx)
    /\ frame_fence_values' = [frame_fence_values EXCEPT ![cur_swapchain_idx] = @ + 1]
    /\ CreateCommandList("render", "Transition Swapchain to Render Target", "main")
    /\ UNCHANGED notDevVars
    /\ UNCHANGED <<cur_swapchain_idx, frame_fences, direct_command_queue, gpu_retired,
                   command_list_done_fence, in_flight_command_lists, done_command_lists,
                   should_thread_continue, should_continue, wpc, cur_pair, event,
                   event_fences, frames_begun, submit_order, in_flight_order, completed,
                   deleted, last_end_frame_signal>>

\* render_scene between begin_frame and end_frame: the main render command list.
RenderSceneMain ==
    /\ pc["render"] = "main"
    /\ CreateCommandList("render", "Main Render Command List", "end_frame")
    /\ UNCHANGED notDevVars
    /\ UNCHANGED <<cur_swapchain_idx, frame_fence_values, frame_fences, direct_command_queue,
                   gpu_retired, command_list_done_fence, in_flight_command_lists,
                   done_command_lists, should_thread_continue, should_continue, wpc,
                   cur_pair, event, event_fences, frames_begun, submit_order,
                   in_flight_order, completed, deleted, last_end_frame_signal>>

\* end_frame: record the transition to presentable and go on to submit it.
EndFrameTransition ==
    /\ pc["render"] = "end_frame"
    /\ CreateCommandList("render", "Transition Swapchain to Presentable", "ef_signal")
    /\ UNCHANGED notDevVars
    /\ UNCHANGED <<cur_swapchain_idx, frame_fence_values, frame_fences, direct_command_queue,
                   gpu_retired, command_list_done_fence, in_flight_command_lists,
                   done_command_lists, should_thread_continue, should_continue, wpc,
                   cur_pair, event, event_fences, frames_begun, submit_order,
                   in_flight_order, completed, deleted, last_end_frame_signal>>

\* Mutant: the value the slot's fence was last signaled with.
FrameSignalValue_Stale(idx) == last_end_frame_signal[idx]

\* The value end_frame signals the fence of slot idx with.
FrameSignalValue(idx) == frame_fence_values[idx]

\* end_frame: direct_command_queue->Signal(frame_fences[idx], frame_fence_values[idx]).
EndFrameSignal ==
    /\ pc["render"] = "ef_signal"
    /\ direct_command_queue' = Append(direct_command_queue,
            [op |-> "signal_frame", list |-> 0, idx |-> cur_swapchain_idx,
             value |-> FrameSignalValue(cur_swapchain_idx)])
    /\ last_end_frame_signal' = [last_end_frame_signal EXCEPT
            ![cur_swapchain_idx] = FrameSignalValue(cur_swapchain_idx)]
    /\ pc' = [pc EXCEPT !["render"] = "ef_present"]
    /\ UNCHANGED notDevVars
    /\ UNCHANGED <<ret, cmds, next_list, list_name, cur_swapchain_idx, frame_fence_values,
                   frame_fences, gpu_retired, command_list_done_fence,
                   in_flight_command_lists, done_command_lists, should_thread_continue,
                   should_continue, wpc, cur_pair, event, event_fences, frames_begun,
                   submit_order, in_flight_order, completed, deleted>>

\* end_frame: swapchain->Present(0, 0); the swapchain moves to its next buffer.
EndFramePresent ==
    /\ pc["render"] = "ef_present"
    /\ direct_command_queue' = Append(direct_command_queue,
            [op |-> "present", list |-> 0, idx |-> cur_swapchain_idx, value |-> 0])
    /\ cur_swapchain_idx' = (cur_swapchain_idx + 1) % NumFrames
    /\ pc' = [pc EXCEPT !["render"] = "idle"]
    /\ UNCHANGED notDevVars
    /\ UNCHANGED <<ret, cmds, next_list, list_name, frame_fence_values, frame_fences,
                   gpu_retired, command_list_done_fence, in_flight_command_lists,
                   done_command_lists, should_thread_continue, should_continue, wpc,
                   cur_pair, event, event_fences, frames_begun, submit_order,
                   in_flight_order, completed, deleted, last_end_frame_signal>>

\* submit_command_list: direct_command_queue->ExecuteCommandLists(1, &list).
SubmitExecute(t) ==
    /\ pc[t] = "submit_execute"
    /\ direct_command_queue' = Append(direct_command_queue,
            [op |-> "execute", list |-> cmds[t], idx |-> 0, value |-> 0])
    /\ submit_order' = Append(submit_order, cmds[t])
    /\ pc' = [pc EXCEPT ![t] = "submit_signal"]
    /\ UNCHANGED notDevVars
    /\ UNCHANGED <<ret, cmds, next_list, list_name, cur_swapchain_idx, frame_fence_values,
                   frame_fences, gpu_retired, command_list_done_fence,
                   in_flight_command_lists, done_command_lists, should_thread_continue,
                   should_continue, wpc, cur_pair, event, event_fences, frames_begun,
                   in_flight_order, completed, deleted, last_end_frame_signal>>

\* submit_command_list: get_next_command_list_done_fence (the pool is never
\* refilled, so a new fence at 0), then Signal(fence, CPU_FENCE_SIGNALED).
SubmitSignal(t) ==
    /\ pc[t] = "submit_signal"
    /\ direct_command_queue' = Append(direct_command_queue,
            [op |-> "signal_list", list |-> cmds[t], idx |-> 0, value |-> CPU_FENCE_SIGNALED])
    /\ pc' = [pc EXCEPT ![t] = "submit_enqueue"]
    /\ UNCHANGED notDevVars
    /\ UNCHANGED <<ret, cmds, next_list, list_name, cur_swapchain_idx, frame_fence_values,
                   frame_fences, gpu_retired, command_list_done_fence,
                   in_flight_command_lists, done_command_lists, should_thread_continue,
                   should_continue, wpc, cur_pair, event, event_fences, frames_begun,
                   submit_order, in_flight_order, completed, deleted,
                   last_end_frame_signal>>

\* submit_command_list: under in_flight_command_lists_mutex, emplace the pair;
\* then notify_one, and return.
SubmitEnqueue(t) ==
    /\ pc[t] = "submit_enqueue"
    /\ in_flight_command_lists' = Append(in_flight_command_lists, cmds[t])
    /\ in_flight_order' = Append(in_flight_order, cmds[t])
    /\ cmds' = [cmds EXCEPT ![t] = 0]
    /\ pc' = [pc EXCEPT ![t] = ret[t]]
    /\ UNCHANGED notDevVars
    /\ UNCHANGED <<ret, next_list, list_name, cur_swapchain_idx, frame_fence_values,
                   frame_fences, direct_command_queue, gpu_retired, command_list_done_fence,
                   done_command_lists, should_thread_continue, should_continue, wpc,
                   cur_pair, event, event_fences, frames_begun, submit_order, completed,
                   deleted, last_end_frame_signal>>

\* The GPU retires the queue's next operation, in submission order.
GpuStep ==
    /\ gpu_retired < Len(direct_command_queue)
    /\ gpu_retired' = gpu_retired + 1
    /\ LET o == direct_command_queue[gpu_retired + 1] IN
        /\ frame_fences' = IF o.op = "signal_frame"
                           THEN [frame_fences EXCEPT ![o.idx] = o.value]
                           ELSE frame_fences
        /\ command_list_done_fence' = IF o.op = "signal_list"
                                      THEN [command_list_done_fence EXCEPT ![o.list] = o.value]
                                      ELSE command_list_done_fence
        /\ event' = IF o.op = "signal_list" /\ o.list \in event_fences THEN TRUE ELSE event
        /\ event_fences' = IF o.op = "signal_list" THEN event_fences \ {o.list}
                           ELSE event_fences
    /\ UNCHANGED notDevVars
    /\ UNCHANGED <<pc, ret, cmds, next_list, list_name, cur_swapchain_idx,
                   frame_fence_values, direct_command_queue, in_flight_command_lists,
                   done_command_lists, should_thread_continue, should_continue, wpc,
                   cur_pair, frames_begun, submit_order, in_flight_order, completed,
                   deleted, last_end_frame_signal>>

\* ------------------------------------------------- wait_for_command_lists

\* Mutant: front() without pop().
PopInFlight_NoPop(q) == [pair |-> Head(q), rest |-> q]

\* Mutant: the newest pair instead of the oldest.
PopInFlight_Back(q) == [pair |-> q[Len(q)], rest |-> SubSeq(q, 1, Len(q) - 1)]

\* The worker's pop: front() and pop() of the in-flight queue.
PopInFlight(q) == [pair |-> Head(q), rest |-> Tail(q)]

\* Thread start: should_continue = should_thread_continue.load().
WorkerStart ==
    /\ wpc = "start"
    /\ should_continue' = should_thread_continue
    /\ wpc' = "loop"
    /\ UNCHANGED notDevVars
    /\ UNCHANGED <<pc, ret, cmds, next_list, list_name, cur_swapchain_idx,
                   frame_fence_values, frame_fences, direct_command_queue, gpu_retired,
                   command_list_done_fence, in_flight_command_lists, done_command_lists,
                   should_thread_continue, cur_pair, event, event_fences, frames_begun,
                   submit_order, in_flight_order, completed, deleted,
                   last_end_frame_signal>>

\* One pass of the loop up to the wait: test should_continue, reload it, and
\* under in_flight_command_lists_mutex either find the queue empty (continue)
\* or pop its front pair.
WorkerLoop ==
    /\ wpc = "loop"
    /\ IF ~should_continue
       THEN /\ wpc' = "exited"
            /\ UNCHANGED <<should_continue, cur_pair, in_flight_command_lists>>
       ELSE /\ should_continue' = should_thread_continue
            /\ IF in_flight_command_lists = <<>>
               THEN UNCHANGED <<wpc, cur_pair, in_flight_command_lists>>
               ELSE /\ cur_pair' = PopInFlight(in_flight_command_lists).pair
                    /\ in_flight_command_lists' = PopInFlight(in_flight_command_lists).rest
                    /\ wpc' = "set_event"
    /\ UNCHANGED notDevVars
    /\ UNCHANGED <<pc, ret, cmds, next_list, list_name, cur_swapchain_idx,
                   frame_fence_values, frame_fences, direct_command_queue, gpu_retired,
                   command_list_done_fence, done_command_lists, should_thread_continue,
                   event, event_fences, frames_begun, submit_order, in_flight_order,
                   completed, deleted, last_end_frame_signal>>

\* cur_pair.first->SetEventOnCompletion(CPU_FENCE_SIGNALED, event): the event is
\* set at once when the fence is already there, and when it gets there otherwise.
WorkerSetEvent ==
    /\ wpc = "set_event"
    /\ IF command_list_done_fence[cur_pair] >= CPU_FENCE_SIGNALED
       THEN event' = TRUE /\ UNCHANGED event_fences
       ELSE event_fences' = event_fences \cup {cur_pair} /\ UNCHANGED event
    /\ wpc' = "wait"
    /\ UNCHANGED notDevVars
    /\ UNCHANGED <<pc, ret, cmds, next_list, list_name, cur_swapchain_idx,
                   frame_fence_values, frame_fences, direct_command_queue, gpu_retired,
                   command_list_done_fence, in_flight_command_lists, done_command_lists,
                   should_thread_continue, should_continue, cur_pair, frames_begun,
                   submit_order, in_flight_order, completed, deleted,
                   last_end_frame_signal>>

\* WaitForSingleObject(event, 2000) returns because the event is set; the event
\* is auto-reset.
WorkerWaitSignaled ==
    /\ wpc = "wait"
    /\ event
    /\ event' = FALSE
    /\ wpc' = "push"
    /\ UNCHANGED notDevVars
    /\ UNCHANGED <<pc, ret, cmds, next_list, list_name, cur_swapchain_idx,
                   frame_fence_values, frame_fences, direct_command_queue, gpu_retired,
                   command_list_done_fence, in_flight_command_lists, done_command_lists,
                   should_thread_continue, should_continue, cur_pair, event_fences,
                   frames_begun, submit_order, in_flight_order, completed, deleted,
                   last_end_frame_signal>>

\* Mutant: WaitForSingleObject(event, INFINITE).
WorkerWaitTimeout_Never == FALSE /\ UNCHANGED vars

\* WaitForSingleObject(event, 2000) returns because 2000 ms have passed; its
\* result is not looked at.
WorkerWaitTimeout ==
    /\ wpc = "wait"
    /\ ~event
    /\ wpc' = "push"
    /\ UNCHANGED notDevVars
    /\ UNCHANGED <<pc, ret, cmds, next_list, list_name, cur_swapchain_idx,
                   frame_fence_values, frame_fences, direct_command_queue, gpu_retired,
                   command_list_done_fence, in_flight_command_lists, done_command_lists,
                   should_thread_continue, should_continue, cur_pair, event, event_fences,
                   frames_begun, submit_order, in_flight_order, completed, deleted,
                   last_end_frame_signal>>

\* Under done_command_lists_mutex, emplace the list on the done queue.
WorkerPush ==
    /\ wpc = "push"
    /\ done_command_lists' = Append(done_command_lists, cur_pair)
    /\ cur_pair' = 0
    /\ wpc' = "loop"
    /\ UNCHANGED notDevVars
    /\ UNCHANGED <<pc, ret, cmds, next_list, list_name, cur_swapchain_idx,
                   frame_fence_values, frame_fences, direct_command_queue, gpu_retired,
                   command_list_done_fence, in_flight_command_lists,
                   should_thread_continue, should_continue, event, event_fences,
                   frames_begun, submit_order, in_flight_order, completed, deleted,
                   last_end_frame_signal>>

\* A task on thread t calls submit_command_list with a list it has recorded.
CallSubmit(t) ==
    /\ pc[t] = "idle"
    /\ next_list < MaxConcurrentLists
    /\ CreateCommandList(t, "Task Command List", "idle")
    /\ UNCHANGED notDevVars
    /\ UNCHANGED <<cur_swapchain_idx, frame_fence_values, frame_fences, direct_command_queue,
                   gpu_retired, command_list_done_fence, in_flight_command_lists,
                   done_command_lists, should_thread_continue, should_continue, wpc,
                   cur_pair, event, event_fences, frames_begun, submit_order,
                   in_flight_order, completed, deleted, last_end_frame_signal>>

\* ~D3D12RenderDevice: wait_for_frame(i) for every frame, each followed by a
\* Wait of the queue on a value the fence has by then reached (fences never go
\* back, so the loop ends when every frame's fence has its value).
DestructorWaitFrames ==
    /\ pc["render"] = "idle"
    /\ \A i \in Slots : FrameReady(i)
    /\ direct_command_queue' = direct_command_queue \o
            [k \in 1..NumFrames |->
                [op |-> "wait", list |-> 0, idx |-> k - 1, value |-> frame_fence_values[k - 1]]]
    /\ pc' = [pc EXCEPT !["render"] = "dtor_signal"]
    /\ UNCHANGED notDevVars
    /\ UNCHANGED <<ret, cmds, next_list, list_name, cur_swapchain_idx, frame_fence_values,
                   frame_fences, gpu_retired, command_list_done_fence,
                   in_flight_command_lists, done_command_lists, should_thread_continue,
                   should_continue, wpc, cur_pair, event, event_fences, frames_begun,
                   submit_order, in_flight_order, completed, deleted,
                   last_end_frame_signal>>

\* ~D3D12RenderDevice, wait_gpu_idle(0): frame_fence_values[0]++ and Signal.
DestructorSignalIdle ==
    /\ pc["render"] = "dtor_signal"
    /\ frame_fence_values' = [frame_fence_values EXCEPT ![0] = @ + 1]
    /\ direct_command_queue' = Append(direct_command_queue,
            [op |-> "signal_frame", list |-> 0, idx |-> 0, value |-> frame_fence_values[0] + 1])
    /\ pc' = [pc EXCEPT !["render"] = "dtor_wait_idle"]
    /\ UNCHANGED notDevVars
    /\ UNCHANGED <<ret, cmds, next_list, list_name, cur_swapchain_idx, frame_fences,
                   gpu_retired, command_list_done_fence, in_flight_command_lists,
                   done_command_lists, should_thread_continue, should_continue, wpc,
                   cur_pair, event, event_fences, frames_begun, submit_order,
                   in_flight_order, completed, deleted, last_end_frame_signal>>

\* ~D3D12RenderDevice, wait_gpu_idle(0): wait_for_frame(0); then the staging
\* buffers and the allocator are released and should_thread_continue.store(false).
DestructorStop ==
    /\ pc["render"] = "dtor_wait_idle"
    /\ FrameReady(0)
    /\ should_thread_continue' = FALSE
    /\ pc' = [pc EXCEPT !["render"] = "dtor_join"]
    /\ UNCHANGED notDevVars
    /\ UNCHANGED <<ret, cmds, next_list, list_name, cur_swapchain_idx, frame_fence_values,
                   frame_fences, direct_command_queue, gpu_retired, command_list_done_fence,
                   in_flight_command_lists, done_command_lists, should_continue, wpc,
                   cur_pair, event, event_fences, frames_begun, submit_order,
                   in_flight_order, completed, deleted, last_end_frame_signal>>

\* ~D3D12RenderDevice: command_completion_thread->join() returns.
DestructorJoin ==
    /\ pc["render"] = "dtor_join"
    /\ wpc = "exited"
    /\ pc' = [pc EXCEPT !["render"] = "destroyed"]
    /\ UNCHANGED notDevVars
    /\ UNCHANGED <<ret, cmds, next_list, list_name, cur_swapchain_idx, frame_fence_values,
                   frame_fences, direct_command_queue, gpu_retired, command_list_done_fence,
                   in_flight_command_lists, done_command_lists, should_thread_continue,
                   should_continue, wpc, cur_pair, event, event_fences, frames_begun,
                   submit_order, in_flight_order, completed, deleted,
                   last_end_frame_signal>>

DestructorNext ==
    \/ DestructorWaitFrames
    \/ DestructorSignalIdle
    \/ DestructorStop
    \/ DestructorJoin

RenderNext ==
    \/ BeginFrameDrain
    \/ BeginFrameWait
    \/ RenderSceneMain
    \/ EndFrameTransition
    \/ EndFrameSignal
    \/ EndFramePresent
    \/ SubmitExecute("render")
    \/ SubmitSignal("render")
    \/ SubmitEnqueue("render")

WorkerNext ==
    \/ WorkerStart
    \/ WorkerLoop
    \/ WorkerSetEvent
    \/ WorkerWaitSignaled
    \/ WorkerWaitTimeout
    \/ WorkerPush

TaskNext(t) ==
    \/ CallSubmit(t)
    \/ SubmitExecute(t)
    \/ SubmitSignal(t)
    \/ SubmitEnqueue(t)

\* ----------------------------------------------------------- resource states

\* D3D12_RESOURCE_STATES, as the set of the flags of a state.
COMMON == {}

GENERIC_READ ==
    {"VERTEX_AND_CONSTANT_BUFFER", "INDEX_BUFFER", "NON_PIXEL_SHADER_RESOURCE",
     "PIXEL_SHADER_RESOURCE", "INDIRECT_ARGUMENT", "COPY_SOURCE"}

BufferUsages ==
    {"StagingBuffer", "ConstantBuffer", "IndirectCommands", "UnorderedAccess", "IndexBuffer",
     "VertexBuffer"}

\* create_buffer: the initial state chosen from the usage.
BufferInitialState(usage) ==
    IF usage \in {"StagingBuffer", "ConstantBuffer"} THEN GENERIC_READ ELSE COMMON

\* create_buffer: the heap type, initial state and mapping chosen from the usage.
BufferFor(usage, size) ==
    IF usage \in {"StagingBuffer", "ConstantBuffer"}
    THEN [kind |-> "buffer", heap |-> "UPLOAD", initial_state |-> BufferInitialState(usage),
          mapped |-> TRUE, size |-> size]
    ELSE [kind |-> "buffer", heap |-> "DEFAULT", initial_state |-> BufferInitialState(usage),
          mapped |-> FALSE, size |-> size]

\* ------------------------------------------------------------ MeshDataStore
\* The uint32_t casts of add_mesh are the identity on every value explored here:
\* all cursors stay far below 2^32.

\* The sizes in bytes make_static_mesh_storage gives the two buffers. The two
\* constants are declared outside these sources; they are scaled here to the
\* vertex counts and index lists explored: 20 vertices and 8 indices.
STATIC_MESH_VERTEX_BUFFER_SIZE == 800

STATIC_MESH_INDEX_BUFFER_SIZE == 32

\* The vertex counts and index lists given to add_mesh.
VertexCounts == {0, 3, 10}

IndexLists == {<<>>, <<0, 1, 2>>, <<2, 0>>}

MeshInit ==
    /\ next_free_vertex_byte = 0
    /\ next_vertex_offset = 0
    /\ next_index_offset = 0
    /\ index_buffer = <<>>
    /\ adding_meshes = FALSE
    /\ mesh_round = 0
    /\ meshes = <<>>
    /\ vertex_buffer_state = BufferInitialState("VertexBuffer")
    /\ index_buffer_state = BufferInitialState("IndexBuffer")
    /\ barrier_errors = {}

\* CD3DX12_RESOURCE_BARRIER::Transition(resource, before, after) recorded while
\* the resource is in state: the errors it adds.
ResourceBarrier(resource, state, before, after) ==
    IF state = before THEN {}
    ELSE {[resource |-> resource, state |-> state, before |-> before, after |-> after]}

\* begin_adding_meshes: both buffers go to copy-destination.
BeginAddingMeshes ==
    /\ ~adding_meshes
    /\ mesh_round < MaxMeshRounds
    /\ adding_meshes' = TRUE
    /\ mesh_round' = mesh_round + 1
    /\ barrier_errors' = barrier_errors
            \cup ResourceBarrier("vertex_buffer", vertex_buffer_state,
                                 {"VERTEX_AND_CONSTANT_BUFFER"}, {"COPY_DEST"})
            \cup ResourceBarrier("index_buffer", index_buffer_state,
                                 {"INDEX_BUFFER"}, {"COPY_DEST"})
    /\ vertex_buffer_state' = {"COPY_DEST"}
    /\ index_buffer_state' = {"COPY_DEST"}
    /\ UNCHANGED notMeshVars
    /\ UNCHANGED <<next_free_vertex_byte, next_vertex_offset, next_index_offset,
                   index_buffer, meshes>>

\* Mutant: the indices are stored as supplied.
OffsetIndex_None(idx, vertex_base) == idx

\* offset_indices.push_back(idx + next_vertex_offset).
OffsetIndex(idx, vertex_base) == idx + vertex_base

\* upload_data_with_staging_buffer: data copied to the buffer from element
\* byte_offset / SizeofUint32 on.
Upload(buffer, data, byte_offset) ==
    LET first == byte_offset \div SizeofUint32
        last == IF Len(buffer) > first + Len(data) THEN Len(buffer) ELSE first + Len(data)
    IN  [p \in 1..last |->
            IF p > first /\ p <= first + Len(data) THEN data[p - first]
            ELSE IF p <= Len(buffer) THEN buffer[p] ELSE 0]

\* Mutant: the byte cursor is not advanced.
AdvanceVertexByte_Stay(cursor, vertex_data_size) == cursor

\* next_free_vertex_byte += vertex_data_size.
AdvanceVertexByte(cursor, vertex_data_size) == cursor + vertex_data_size

\* add_mesh(vertices, indices, commands), with num_vertices = vertices.size().
AddMesh(num_vertices, indices) ==
    /\ adding_meshes
    /\ Len(meshes) < MaxMeshes
    /\ LET vertex_data_size == num_vertices * SizeofStandardVertex
           offset_indices == [k \in DOMAIN indices |-> OffsetIndex(indices[k], next_vertex_offset)]
           index_buffer_byte_offset == next_index_offset * SizeofUint32
           vertex_offset == next_free_vertex_byte \div SizeofStandardVertex
           index_offset == next_index_offset
       IN  /\ index_buffer' = Upload(index_buffer, offset_indices, index_buffer_byte_offset)
           /\ next_free_vertex_byte' = AdvanceVertexByte(next_free_vertex_byte, vertex_data_size)
           /\ next_vertex_offset' = next_vertex_offset + num_vertices
           /\ next_index_offset' = next_index_offset + Len(indices)
           /\ meshes' = Append(meshes,
                  [first_vertex |-> vertex_offset, num_vertices |-> num_vertices,
                   first_index |-> index_offset, num_indices |-> Len(indices),
                   indices |-> indices, round |-> mesh_round])
    /\ UNCHANGED notMeshVars
    /\ UNCHANGED <<adding_meshes, mesh_round, vertex_buffer_state, index_buffer_state,
                   barrier_errors>>

\* end_adding_meshes: both buffers go back to their bindable state.
EndAddingMeshes ==
    /\ adding_meshes
    /\ adding_meshes' = FALSE
    /\ barrier_errors' = barrier_errors
            \cup ResourceBarrier("vertex_buffer", vertex_buffer_state,
                                 {"COPY_DEST"}, {"VERTEX_AND_CONSTANT_BUFFER"})
            \cup ResourceBarrier("index_buffer", index_buffer_state,
                                 {"COPY_DEST"}, {"INDEX_BUFFER"})
    /\ vertex_buffer_state' = {"VERTEX_AND_CONSTANT_BUFFER"}
    /\ index_buffer_state' = {"INDEX_BUFFER"}
    /\ UNCHANGED notMeshVars
    /\ UNCHANGED <<next_free_vertex_byte, next_vertex_offset, next_index_offset,
                   index_buffer, mesh_round, meshes>>

\* add_train_to_scene after end_adding_meshes: both buffers go to
\* non-pixel-shader-resource for create_raytracing_geometry, and back.
BuildRaytracingGeometry ==
    /\ ~adding_meshes
    /\ mesh_round > 0
    /\ barrier_errors' = barrier_errors
            \cup ResourceBarrier("index_buffer", index_buffer_state,
                                 {"INDEX_BUFFER"}, {"NON_PIXEL_SHADER_RESOURCE"})
            \cup ResourceBarrier("vertex_buffer", vertex_buffer_state,
                                 {"VERTEX_AND_CONSTANT_BUFFER"}, {"NON_PIXEL_SHADER_RESOURCE"})
    /\ index_buffer_state' = {"INDEX_BUFFER"}
    /\ vertex_buffer_state' = {"VERTEX_AND_CONSTANT_BUFFER"}
    /\ UNCHANGED notMeshVars
    /\ UNCHANGED <<next_free_vertex_byte, next_vertex_offset, next_index_offset,
                   index_buffer, adding_meshes, mesh_round, meshes>>

MeshNext ==
    \/ BeginAddingMeshes
    \/ \E n \in VertexCounts, ix \in IndexLists : AddMesh(n, ix)
    \/ EndAddingMeshes
    \/ BuildRaytracingGeometry

\* ------------------------------------------------------- MaterialDataBuffer

\* sizeof(MaterialDataStruct) of the structs stored in the buffer.
StructSizes == {4, 12, 16}

MatInit ==
    /\ num_allocated_bytes = 0
    /\ materials = <<>>

\* Mutant: the index the allocated bytes end in.
NewIdx_NoSkip(allocated, struct_size) == allocated \div struct_size

\* new_idx = (num_allocated_bytes / struct_size) + 1, an integer division.
NewIdx(allocated, struct_size) == (allocated \div struct_size) + 1

\* get_next_free_material<MaterialDataStruct>().
GetNextFreeMaterial(struct_size) ==
    /\ Len(materials) < MaxMaterials
    /\ LET new_idx == NewIdx(num_allocated_bytes, struct_size) IN
        /\ num_allocated_bytes' = struct_size * (new_idx + 1)
        /\ materials' = Append(materials,
               [index |-> new_idx, struct_size |-> struct_size,
                old_num_allocated_bytes |-> num_allocated_bytes])
    /\ UNCHANGED notMatVars

\* Mutant: the index taken as a byte offset.
AtByteOffset_Unscaled(index, struct_size) == index

\* at<MaterialDataStruct>(handle): element handle.index of the buffer seen as an
\* array of the struct, as a byte offset.
AtByteOffset(index, struct_size) == index * struct_size

MatNext == \E sz \in StructSizes : GetNextFreeMaterial(sz)

\* ------------------------------ D3D12BindGroupBuilder, D3D12MaterialBuilder

SlotNames == {"material_buffer", "textures"}

RootDescriptorTypes == {"ConstantBuffer", "ShaderResource", "UnorderedAccess"}

DescriptorTypes == {"CBV", "SRV", "UAV"}

\* The root parameter indices given to the constructor.
RootIndices == {0, 1, 32}

TableIndices == {1, 64}

DescriptorHandles == {16}

BufferResources == {"buffer1"}

ImageResources == {"image1", "image2"}

\* The arrays given to set_image_array.
ImageArrays == {<<>>, <<"image1", "image2">>}

\* resource->GetGPUVirtualAddress().
GetGPUVirtualAddress(resource) ==
    CASE resource = "buffer1" -> 4096
      [] resource = "image1" -> 8192
      [] resource = "image2" -> 12288

\* What reading a vector of images through a D3D12Buffer pointer can give: any
\* address, or (-1) an access violation.
UndefinedReads == {-1, 0, 8192}

EmptyMap == [n \in {} |-> 0]

Maps(K, V) == UNION {[D -> V] : D \in SUBSET K}

\* insert_or_assign, and the find-then-assign-or-insert of D3D12MaterialBuilder.
InsertOrAssign(m, k, v) == [n \in DOMAIN m \cup {k} |-> IF n = k THEN v ELSE m[n]]

\* Every order in which the elements of a map can be visited.
Orders(S) == {o \in [1..Cardinality(S) -> S] : Range(o) = S}

\* A default-constructed RootParameter.
EmptyRootParameter == [type |-> "Empty", descriptor_type |-> "ConstantBuffer", address |-> 0, handle |-> 0]

BindInit ==
    /\ builder = "none"
    /\ should_do_validation = FALSE
    /\ root_descriptor_descriptions = EmptyMap
    /\ descriptor_table_descriptor_mappings = EmptyMap
    /\ descriptor_table_handles = EmptyMap
    /\ descriptors = EmptyMap
    /\ bound_buffers = EmptyMap
    /\ bound_images = EmptyMap
    /\ bind_calls = 0
    /\ build_called = FALSE
    /\ build_result = "none"
    /\ root_parameters = [i \in 0..(MaxRootParameters - 1) |-> EmptyRootParameter]
    /\ views = EmptyMap
    /\ warnings = 0
    /\ aborted = FALSE

\* D3D12BindGroupBuilder(root_descriptor_descriptions_in,
\* descriptor_table_descriptor_mappings_in, descriptor_table_handles_in).
D3D12BindGroupBuilder_ctor(rdd, dtdm, dth) ==
    /\ builder = "none"
    /\ builder' = "D3D12BindGroupBuilder"
    /\ root_descriptor_descriptions' = rdd
    /\ descriptor_table_descriptor_mappings' = dtdm
    /\ descriptor_table_handles' = dth
    /\ UNCHANGED <<should_do_validation, descriptors, bound_buffers, bound_images, bind_calls,
                   build_called, build_result, root_parameters, views, warnings, aborted>>
    /\ UNCHANGED notBindVars

BindGroupBuilderInUse ==
    /\ builder = "D3D12BindGroupBuilder"
    /\ ~build_called
    /\ ~aborted

\* D3D12BindGroupBuilder::set_buffer.
D3D12BindGroupBuilder_set_buffer(name, buffer) ==
    /\ BindGroupBuilderInUse
    /\ bind_calls < MaxBindCalls
    /\ bind_calls' = bind_calls + 1
    /\ bound_buffers' = InsertOrAssign(bound_buffers, name, buffer)
    /\ UNCHANGED <<builder, should_do_validation, root_descriptor_descriptions,
                   descriptor_table_descriptor_mappings, descriptor_table_handles,
                   descriptors, bound_images, build_called, build_result, root_parameters,
                   views, warnings, aborted>>
    /\ UNCHANGED notBindVars

\* D3D12BindGroupBuilder::set_image_array: the images are put in bound_buffers.
D3D12BindGroupBuilder_set_image_array(name, images) ==
    /\ BindGroupBuilderInUse
    /\ bind_calls < MaxBindCalls
    /\ bind_calls' = bind_calls + 1
    /\ bound_buffers' = InsertOrAssign(bound_buffers, name, images)
    /\ UNCHANGED <<builder, should_do_validation, root_descriptor_descriptions,
                   descriptor_table_descriptor_mappings, descriptor_table_handles,
                   descriptors, bound_images, build_called, build_result, root_parameters,
                   views, warnings, aborted>>
    /\ UNCHANGED notBindVars

\* D3D12BindGroupBuilder::set_image: set_image_array(name, {&image}).
D3D12BindGroupBuilder_set_image(name, image) ==
    D3D12BindGroupBuilder_set_image_array(name, <<image>>)

\* build, "Save descriptor table information".
SaveDescriptorTables ==
    [root_parameters |->
        [i \in 0..(MaxRootParameters - 1) |->
            IF i \in DOMAIN descriptor_table_handles
            THEN [EmptyRootParameter EXCEPT !.type = "DescriptorTable",
                                            !.handle = descriptor_table_handles[i]]
            ELSE EmptyRootParameter],
     warnings |-> 0,
     aborted |-> \E idx \in DOMAIN descriptor_table_handles : ~(idx < MaxRootParameters)]

\* buffer_itr->second->resource->GetGPUVirtualAddress(), where second is a buffer
\* or, after set_image_array, a vector of images.
BoundBufferAddress(bound, undefined_read) ==
    IF bound \in BufferResources THEN GetGPUVirtualAddress(bound) ELSE undefined_read

RECURSIVE SaveRootDescriptors(_, _, _)
\* build, "Save root descriptor information", visiting the names in this order.
SaveRootDescriptors(order, acc, undefined_read) ==
    IF order = <<>> \/ acc.aborted THEN acc
    ELSE
        LET name == Head(order)
            idx == root_descriptor_descriptions[name].idx
            type == root_descriptor_descriptions[name].type
            stop == [acc EXCEPT !.aborted = TRUE]
            param == [EmptyRootParameter EXCEPT !.type = "Descriptor", !.descriptor_type = type]
        IN  IF ~(idx < MaxRootDescriptors) THEN stop
            ELSE IF acc.root_parameters[idx].type # "Empty" THEN stop
            ELSE IF name \in DOMAIN bound_buffers
            THEN LET address == BoundBufferAddress(bound_buffers[name], undefined_read) IN
                 IF address = -1 THEN stop
                 ELSE SaveRootDescriptors(Tail(order),
                        [acc EXCEPT !.root_parameters[idx] = [param EXCEPT !.address = address]],
                        undefined_read)
            ELSE IF name \in DOMAIN bound_images
            THEN IF Len(bound_images[name]) # 1 THEN stop
                 ELSE SaveRootDescriptors(Tail(order),
                        [acc EXCEPT !.root_parameters[idx] =
                            [param EXCEPT !.address = GetGPUVirtualAddress(bound_images[name][1])]],
                        undefined_read)
            ELSE SaveRootDescriptors(Tail(order),
                    [acc EXCEPT !.root_parameters[idx] = param, !.warnings = @ + 1],
                    undefined_read)

\* D3D12BindGroupBuilder::build. Nothing is done for the descriptor table
\* descriptors.
D3D12BindGroupBuilder_build ==
    /\ BindGroupBuilderInUse
    /\ build_called' = TRUE
    /\ \E order \in Orders(DOMAIN root_descriptor_descriptions),
          undefined_read \in UndefinedReads :
          LET tables == SaveDescriptorTables
              built == SaveRootDescriptors(order, tables, undefined_read)
          IN  /\ aborted' = built.aborted
              /\ warnings' = warnings + built.warnings
              /\ root_parameters' = IF built.aborted THEN root_parameters
                                    ELSE built.root_parameters
              /\ build_result' = IF built.aborted THEN "none" ELSE "bind_group"
    /\ UNCHANGED <<builder, should_do_validation, root_descriptor_descriptions,
                   descriptor_table_descriptor_mappings, descriptor_table_handles,
                   descriptors, bound_buffers, bound_images, bind_calls, views>>
    /\ UNCHANGED notBindVars

\* D3D12MaterialBuilder(allocator, descriptors_in, render_device_in);
\* should_do_validation is read from the console variable.
D3D12MaterialBuilder_ctor(descriptors_in, do_validation) ==
    /\ builder = "none"
    /\ builder' = "D3D12MaterialBuilder"
    /\ descriptors' = descriptors_in
    /\ should_do_validation' = do_validation
    /\ UNCHANGED <<root_descriptor_descriptions, descriptor_table_descriptor_mappings,
                   descriptor_table_handles, bound_buffers, bound_images, bind_calls,
                   build_called, build_result, root_parameters, views, warnings, aborted>>
    /\ UNCHANGED notBindVars

MaterialBuilderInUse ==
    /\ builder = "D3D12MaterialBuilder"
    /\ ~build_called
    /\ ~aborted

\* Mutant: the name is checked whatever the validation flag says.
NameAssertFails_Unguarded(name) == name \notin DOMAIN descriptors

\* if(should_do_validation) RX_ASSERT(descriptors.find(name) != nullptr, ...) fails.
NameAssertFails(name) == should_do_validation /\ name \notin DOMAIN descriptors

\* D3D12MaterialBuilder::set_buffer.
D3D12MaterialBuilder_set_buffer(name, buffer) ==
    /\ MaterialBuilderInUse
    /\ bind_calls < MaxBindCalls
    /\ bind_calls' = bind_calls + 1
    /\ IF NameAssertFails(name)
       THEN aborted' = TRUE /\ UNCHANGED bound_buffers
       ELSE bound_buffers' = InsertOrAssign(bound_buffers, name, buffer) /\ UNCHANGED aborted
    /\ UNCHANGED <<builder, should_do_validation, root_descriptor_descriptions,
                   descriptor_table_descriptor_mappings, descriptor_table_handles,
                   descriptors, bound_images, build_called, build_result, root_parameters,
                   views, warnings>>
    /\ UNCHANGED notBindVars

\* D3D12MaterialBuilder::set_image_array.
D3D12MaterialBuilder_set_image_array(name, images) ==
    /\ MaterialBuilderInUse
    /\ bind_calls < MaxBindCalls
    /\ bind_calls' = bind_calls + 1
    /\ IF NameAssertFails(name) \/ (should_do_validation /\ images = <<>>)
       THEN aborted' = TRUE /\ UNCHANGED bound_images
       ELSE bound_images' = InsertOrAssign(bound_images, name, images) /\ UNCHANGED aborted
    /\ UNCHANGED <<builder, should_do_validation, root_descriptor_descriptions,
                   descriptor_table_descriptor_mappings, descriptor_table_handles,
                   descriptors, bound_buffers, build_called, build_result, root_parameters,
                   views, warnings>>
    /\ UNCHANGED notBindVars

\* D3D12MaterialBuilder::set_image: its own check of the name, then
\* set_image_array(name, rx::array{&image}).
D3D12MaterialBuilder_set_image(name, image) ==
    D3D12MaterialBuilder_set_image_array(name, <<image>>)

\* update_descriptors for one declared descriptor: the views created from its
\* handle on, or a failed RX_ASSERT.
UpdateDescriptor(name) ==
    LET type == descriptors[name].type IN
    IF name \in DOMAIN bound_buffers
    THEN [views |-> <<[type |-> type, resource |-> bound_buffers[name]]>>, aborted |-> FALSE]
    ELSE IF name \in DOMAIN bound_images
    THEN LET images == bound_images[name] IN
         IF should_do_validation /\ (type = "CBV" \/ images = <<>>)
         THEN [views |-> <<>>, aborted |-> TRUE]
         ELSE IF type \in {"SRV", "UAV"}
         THEN [views |-> [k \in DOMAIN images |-> [type |-> type, resource |-> images[k]]],
               aborted |-> FALSE]
         ELSE [views |-> <<>>, aborted |-> FALSE]
    ELSE [views |-> <<>>, aborted |-> should_do_validation]

\* D3D12MaterialBuilder::build: update_descriptors, then a new D3D12Material.
D3D12MaterialBuilder_build ==
    /\ MaterialBuilderInUse
    /\ build_called' = TRUE
    /\ LET updated == [name \in DOMAIN descriptors |-> UpdateDescriptor(name)]
           failed == \E name \in DOMAIN descriptors : updated[name].aborted
       IN  /\ aborted' = failed
           /\ views' = IF failed THEN views
                       ELSE [name \in DOMAIN descriptors |-> updated[name].views]
           /\ build_result' = IF failed THEN "none" ELSE "material"
    /\ UNCHANGED <<builder, should_do_validation, root_descriptor_descriptions,
                   descriptor_table_descriptor_mappings, descriptor_table_handles,
                   descriptors, bound_buffers, bound_images, bind_calls, root_parameters,
                   warnings>>
    /\ UNCHANGED notBindVars

\* The names given to the set_ calls: the declared ones and one that is not.
BoundNames == SlotNames \cup {"undeclared"}

BindNext ==
    \/ \E rdd \in Maps(SlotNames, [idx : RootIndices, type : RootDescriptorTypes]) :
         \E dtdm \in Maps(SlotNames \ DOMAIN rdd, DescriptorHandles),
            dth \in Maps(TableIndices, DescriptorHandles) :
              D3D12BindGroupBuilder_ctor(rdd, dtdm, dth)
    \/ \E name \in BoundNames, buffer \in BufferResources :
         D3D12BindGroupBuilder_set_buffer(name, buffer)
    \/ \E name \in BoundNames, image \in ImageResources :
         D3D12BindGroupBuilder_set_image(name, image)
    \/ \E name \in BoundNames, images \in ImageArrays :
         D3D12BindGroupBuilder_set_image_array(name, images)
    \/ D3D12BindGroupBuilder_build
    \/ \E d \in Maps(SlotNames, [type : DescriptorTypes, handle : DescriptorHandles]),
          v \in BOOLEAN :
         D3D12MaterialBuilder_ctor(d, v)
    \/ \E name \in BoundNames, buffer \in BufferResources :
         D3D12MaterialBuilder_set_buffer(name, buffer)
    \/ \E name \in BoundNames, image \in ImageResources :
         D3D12MaterialBuilder_set_image(name, image)
    \/ \E name \in BoundNames, images \in ImageArrays :
         D3D12MaterialBuilder_set_image_array(name, images)
    \/ D3D12MaterialBuilder_build

\* --------------------- D3D12RenderDevice: resources, pipelines, staging buffers

\* The last one stands for a value outside the enumeration.
ImageUsages == {"RenderTarget", "SampledImage", "DepthStencil", "UnorderedAccess", "Unrecognized"}

BufferSizes == {64, 256}

\* An empty unique_ptr, an empty D3D12StagingBuffer.
Empty == [kind |-> "empty"]

ResInit ==
    /\ staging_buffers = <<>>
    /\ staging_buffer_idx = 0
    /\ staging_in_use = <<>>
    /\ created = [call |-> "none", failed |-> FALSE, result |-> Empty]
    /\ create_calls = 0
    /\ errors_logged = 0

\* Mutant: the object made before the allocation is returned whatever happened.
ReturnUnlessFailed_Unchecked(failed, resource) == resource

\* if(FAILED(result)) { spdlog::error(...); return {}; } ... return resource.
ReturnUnlessFailed(failed, resource) == IF failed THEN Empty ELSE resource

\* D3D12RenderDevice::create_buffer; failed is FAILED(result) of CreateResource.
CreateBuffer(usage, size, failed) ==
    /\ create_calls < MaxCreateCalls
    /\ create_calls' = create_calls + 1
    /\ created' = [call |-> "create_buffer", failed |-> failed,
                   result |-> ReturnUnlessFailed(failed, BufferFor(usage, size))]
    /\ errors_logged' = IF failed THEN errors_logged + 1 ELSE errors_logged
    /\ UNCHANGED <<staging_buffers, staging_buffer_idx, staging_in_use>>
    /\ UNCHANGED notResVars

\* create_image: the initial state chosen from the usage.
ImageInitialState(usage) ==
    CASE usage = "RenderTarget" -> {"RENDER_TARGET"}
      [] usage = "SampledImage" -> {"PIXEL_SHADER_RESOURCE", "NON_PIXEL_SHADER_RESOURCE"}
      [] usage = "DepthStencil" -> {"DEPTH_WRITE"}
      [] usage = "UnorderedAccess" -> {"UNORDERED_ACCESS"}
      [] OTHER -> COMMON

\* D3D12RenderDevice::create_image; failed is FAILED(result) of CreateResource.
CreateImage(usage, failed) ==
    /\ create_calls < MaxCreateCalls
    /\ create_calls' = create_calls + 1
    /\ created' = [call |-> "create_image", failed |-> failed,
                   result |-> ReturnUnlessFailed(failed,
                       [kind |-> "image", heap |-> "DEFAULT",
                        initial_state |-> ImageInitialState(usage)])]
    /\ errors_logged' = IF failed THEN errors_logged + 1 ELSE errors_logged
    /\ UNCHANGED <<staging_buffers, staging_buffer_idx, staging_in_use>>
    /\ UNCHANGED notResVars

\* What CreateComputePipelineState / CreateGraphicsPipelineState leaves in pso.
PipelineStateObject(failed) == IF failed THEN "null" ELSE "pso"

\* D3D12RenderDevice::create_compute_pipeline_state; the HRESULT of
\* CreateComputePipelineState is not looked at.
CreateComputePipelineState(failed) ==
    /\ create_calls < MaxCreateCalls
    /\ create_calls' = create_calls + 1
    /\ created' = [call |-> "create_compute_pipeline_state", failed |-> failed,
                   result |-> [kind |-> "compute_pipeline", pso |-> PipelineStateObject(failed)]]
    /\ UNCHANGED <<staging_buffers, staging_buffer_idx, staging_in_use, errors_logged>>
    /\ UNCHANGED notResVars

\* D3D12RenderDevice::create_render_pipeline_state; the HRESULT of
\* CreateGraphicsPipelineState is not looked at.
CreateRenderPipelineState(use_standard_material_layout, failed) ==
    /\ create_calls < MaxCreateCalls
    /\ create_calls' = create_calls + 1
    /\ created' = [call |-> "create_render_pipeline_state", failed |-> failed,
                   result |-> [kind |-> "render_pipeline",
                               root_signature |-> IF use_standard_material_layout
                                                  THEN "standard_root_signature" ELSE "null",
                               pso |-> PipelineStateObject(failed)]]
    /\ UNCHANGED <<staging_buffers, staging_buffer_idx, staging_in_use, errors_logged>>
    /\ UNCHANGED notResVars

\* Mutant: the first buffer big enough is taken.
BestFit_First(pool, num_bytes, i, best) ==
    IF \E k \in DOMAIN pool : pool[k] >= num_bytes
    THEN CHOOSE k \in DOMAIN pool :
            pool[k] >= num_bytes /\ \A j \in 1..(k - 1) : pool[j] < num_bytes
    ELSE Len(pool) + 1

RECURSIVE BestFit(_, _, _, _)
\* get_staging_buffer's search from index i on, best being the best so far
\* (Len(pool) + 1 for none): the smallest buffer of at least num_bytes, the first
\* of them when there are several.
BestFit(pool, num_bytes, i, best) ==
    IF i > Len(pool) THEN best
    ELSE IF pool[i] >= num_bytes /\ (best > Len(pool) \/ pool[i] < pool[best])
         THEN BestFit(pool, num_bytes, i + 1, i)
         ELSE BestFit(pool, num_bytes, i + 1, best)

\* D3D12RenderDevice::get_staging_buffer, with create_staging_buffer when the
\* pool has no buffer big enough; failed is FAILED(result) of its CreateResource.
GetStagingBuffer(num_bytes, failed) ==
    LET best_fit_idx == BestFit(staging_buffers, num_bytes, 1, Len(staging_buffers) + 1) IN
    /\ IF best_fit_idx <= Len(staging_buffers)
       THEN /\ ~failed
            /\ staging_in_use' = Append(staging_in_use, staging_buffers[best_fit_idx])
            /\ staging_buffers' = [k \in 1..(Len(staging_buffers) - 1) |->
                                      IF k < best_fit_idx THEN staging_buffers[k]
                                      ELSE staging_buffers[k + 1]]
            /\ UNCHANGED <<staging_buffer_idx, errors_logged>>
       ELSE IF failed
            THEN /\ errors_logged < MaxCreateCalls
                 /\ errors_logged' = errors_logged + 1
                 /\ UNCHANGED <<staging_buffers, staging_buffer_idx, staging_in_use>>
            ELSE /\ staging_buffer_idx < MaxStagingBuffers
                 /\ staging_buffer_idx' = staging_buffer_idx + 1
                 /\ staging_in_use' = Append(staging_in_use, num_bytes)
                 /\ UNCHANGED <<staging_buffers, errors_logged>>
    /\ UNCHANGED <<created, create_calls>>
    /\ UNCHANGED notResVars

\* D3D12RenderDevice::return_staging_buffer, for the k-th buffer handed out.
ReturnStagingBuffer(k) ==
    /\ k \in DOMAIN staging_in_use
    /\ staging_buffers' = Append(staging_buffers, staging_in_use[k])
    /\ staging_in_use' = [j \in 1..(Len(staging_in_use) - 1) |->
                             IF j < k THEN staging_in_use[j] ELSE staging_in_use[j + 1]]
    /\ UNCHANGED <<staging_buffer_idx, created, create_calls, errors_logged>>
    /\ UNCHANGED notResVars

CreateNext ==
    \/ \E usage \in BufferUsages, size \in BufferSizes, failed \in BOOLEAN :
         CreateBuffer(usage, size, failed)
    \/ \E usage \in ImageUsages, failed \in BOOLEAN : CreateImage(usage, failed)
    \/ \E failed \in BOOLEAN : CreateComputePipelineState(failed)
    \/ \E layout \in BOOLEAN, failed \in BOOLEAN : CreateRenderPipelineState(layout, failed)
    \/ \E num_bytes \in BufferSizes, failed \in BOOLEAN : GetStagingBuffer(num_bytes, failed)
    \/ \E k \in 1..MaxStagingBuffers : ReturnStagingBuffer(k)

\* ------------------------------------- DescriptorAllocator and framebuffers

\* A handle is the number of its slot in the heap. No handle: std::nullopt.
NoHandle == -1

\* Mutant: the handle given out stays in available_handles.
PopBack_Keep(handles) == handles

\* available_handles without its last element.
PopBack(handles) == SubSeq(handles, 1, Len(handles) - 1)

\* get_next_free_descriptor() can take the slot under the cursor.
CanUseCursor(allocator) == allocator.next_free_descriptor < MaxDescriptors

\* get_next_free_descriptor(): the handle it returns and the allocator after it.
\* The slot under the cursor, which then advances, or the handle returned last;
\* from_free_list says which when both are possible.
GetNextFreeDescriptor(allocator, from_free_list) ==
    IF allocator.available_handles # <<>> /\ (from_free_list \/ ~CanUseCursor(allocator))
    THEN [handle |-> allocator.available_handles[Len(allocator.available_handles)],
          allocator |-> [allocator EXCEPT !.available_handles = PopBack(@)]]
    ELSE [handle |-> allocator.next_free_descriptor,
          allocator |-> [allocator EXCEPT !.next_free_descriptor = @ + 1]]

\* return_descriptor(handle).
ReturnDescriptor(allocator, handle) ==
    [allocator EXCEPT !.available_handles = Append(@, handle)]

\* The allocator after the constructor.
NewDescriptorAllocator == [next_free_descriptor |-> 0, available_handles |-> <<>>]

\* Mutant: one descriptor for all the render targets.
GetDescriptors_Shared(acc, n, from_free_list) ==
    IF n = 0 THEN acc
    ELSE LET got == GetNextFreeDescriptor(acc.allocator, from_free_list[n]) IN
         [allocator |-> got.allocator, handles |-> [k \in 1..n |-> got.handle]]

\* How many more handles the allocator can give.
FreeDescriptors(allocator) ==
    (MaxDescriptors - allocator.next_free_descriptor) + Len(allocator.available_handles)

RECURSIVE GetDescriptors(_, _, _)
\* n calls of get_next_free_descriptor(), the handles pushed back on handles.
GetDescriptors(acc, n, from_free_list) ==
    IF n = 0 THEN acc
    ELSE LET got == GetNextFreeDescriptor(acc.allocator, from_free_list[n]) IN
         GetDescriptors([allocator |-> got.allocator,
                         handles |-> Append(acc.handles, got.handle)],
                        n - 1, from_free_list)

RECURSIVE ReturnDescriptors(_, _)
ReturnDescriptors(allocator, handles) ==
    IF handles = <<>> THEN allocator
    ELSE ReturnDescriptors(ReturnDescriptor(allocator, Head(handles)), Tail(handles))

\* initialize_swapchain_descriptors: one render target view for each swapchain
\* image, kept for the life of the device.
SwapchainAllocator ==
    GetDescriptors([allocator |-> NewDescriptorAllocator, handles |-> <<>>], NumFrames,
                   [n \in 1..NumFrames |-> FALSE])

\* The images given to create_framebuffer, by their width and height.
TargetImages == {[width |-> 1, height |-> 1], [width |-> 2, height |-> 2]}

\* depth_target == nullptr.
NoImage == [width |-> 0, height |-> 0]

DescInit ==
    /\ rtv_allocator = SwapchainAllocator.allocator
    /\ dsv_allocator = NewDescriptorAllocator
    /\ framebuffers = <<>>
    /\ created_framebuffer = [render_targets |-> <<>>, depth_target |-> NoImage,
                              framebuffer |-> Empty, errors |-> 0]

\* create_framebuffer: width, height and the errors logged after one more image;
\* a width or height that differs from the one before it is logged, and taken.
FramebufferSizeAfter(acc, image) ==
    [width |-> image.width,
     height |-> image.height,
     errors |-> acc.errors
                  + (IF acc.width # 0 /\ acc.width # image.width THEN 1 ELSE 0)
                  + (IF acc.height # 0 /\ acc.height # image.height THEN 1 ELSE 0)]

RECURSIVE FramebufferSize(_, _)
\* create_framebuffer: width, height and errors after the images, first to last.
FramebufferSize(acc, images) ==
    IF images = <<>> THEN acc
    ELSE FramebufferSize(FramebufferSizeAfter(acc, Head(images)), Tail(images))

\* D3D12RenderDevice::create_framebuffer(render_targets, depth_target).
CreateFramebuffer(render_targets, depth_target, rtv_from_free_list, dsv_from_free_list) ==
    /\ Len(framebuffers) < MaxFramebuffers
    /\ Len(render_targets) <= FreeDescriptors(rtv_allocator)
    /\ depth_target # NoImage => FreeDescriptors(dsv_allocator) > 0
    /\ LET rtvs == GetDescriptors([allocator |-> rtv_allocator, handles |-> <<>>],
                                  Len(render_targets), rtv_from_free_list)
           dsv == GetNextFreeDescriptor(dsv_allocator, dsv_from_free_list)
           targets_size == FramebufferSize([width |-> 0, height |-> 0, errors |-> 0],
                                           render_targets)
           size == IF depth_target # NoImage
                   THEN FramebufferSizeAfter(targets_size, depth_target)
                   ELSE targets_size
           framebuffer == [rtv_handles |-> rtvs.handles,
                           dsv_handle |-> IF depth_target # NoImage THEN dsv.handle
                                          ELSE NoHandle]
       IN  /\ rtv_allocator' = rtvs.allocator
           /\ dsv_allocator' = IF depth_target # NoImage THEN dsv.allocator ELSE dsv_allocator
           /\ framebuffers' = Append(framebuffers, framebuffer)
           /\ created_framebuffer' =
                  [render_targets |-> render_targets, depth_target |-> depth_target,
                   framebuffer |-> [kind |-> "framebuffer",
                                    rtv_handles |-> framebuffer.rtv_handles,
                                    dsv_handle |-> framebuffer.dsv_handle,
                                    width |-> size.width, height |-> size.height],
                   errors |-> size.errors]
    /\ UNCHANGED notDescVars

\* D3D12RenderDevice::destroy_framebuffer of the k-th framebuffer alive.
DestroyFramebuffer(k) ==
    /\ k \in DOMAIN framebuffers
    /\ rtv_allocator' = ReturnDescriptors(rtv_allocator, framebuffers[k].rtv_handles)
    /\ dsv_allocator' = IF framebuffers[k].dsv_handle # NoHandle
                        THEN ReturnDescriptor(dsv_allocator, framebuffers[k].dsv_handle)
                        ELSE dsv_allocator
    /\ framebuffers' = [j \in 1..(Len(framebuffers) - 1) |->
                           IF j < k THEN framebuffers[j] ELSE framebuffers[j + 1]]
    /\ UNCHANGED created_framebuffer
    /\ UNCHANGED notDescVars

\* The render targets given to create_framebuffer.
RenderTargetLists == UNION {[1..n -> TargetImages] : n \in 0..MaxRenderTargets}

\* The depth targets given to create_framebuffer.
DepthTargets == {NoImage, [width |-> 1, height |-> 1]}

\* from_free_list: the allocators take a returned handle before the cursor.
DescNext ==
    \/ \E render_targets \in RenderTargetLists, depth_target \in DepthTargets,
          from_free_list \in BOOLEAN :
         CreateFramebuffer(render_targets, depth_target,
                           [n \in 1..MaxRenderTargets |-> from_free_list], from_free_list)
    \/ \E k \in 1..MaxFramebuffers : DestroyFramebuffer(k)

\* ------------------------------------------------------ Renderer: the images

ImageNames == {"Scene color target", "Accumulation target"}

\* The usages the images of the Renderer are created with.
RendererImageUsages == {"RenderTarget", "SampledImage"}

ImgInit ==
    /\ image_name_to_index = EmptyMap
    /\ all_images = <<>>
    /\ image_handles = <<>>

\* Mutant: the index taken after the image was added.
NewImageIndex_AfterPush(images) == Len(images) + 1

\* The index of the image create_image is about to add to all_images.
NewImageIndex(images) == Len(images)

\* all_images[idx] of the code, whose indices start at 0.
ImageAt(idx) == all_images[idx + 1]

\* Renderer::create_image(create_info) on the images and names given: the image
\* the device creates is added to all_images and its index registered under its
\* name; replace says whether a name already registered is given the new index.
\* The call has no command list to record a transition in: the image is in the
\* state it was created in.
CreateImageIn(registry, name, usage, replace) ==
    LET idx == NewImageIndex(registry.all_images) IN
    [all_images |-> Append(registry.all_images,
                       [name |-> name, usage |-> usage, state |-> ImageInitialState(usage),
                        created |-> Len(registry.all_images) + 1]),
     image_name_to_index |->
         IF name \in DOMAIN registry.image_name_to_index /\ ~replace
         THEN registry.image_name_to_index
         ELSE InsertOrAssign(registry.image_name_to_index, name, idx),
     handle |-> [index |-> idx]]

\* Renderer::create_image(create_info).
Renderer_create_image(name, usage, replace) ==
    /\ Len(all_images) < MaxImages
    /\ LET made == CreateImageIn([all_images |-> all_images,
                                  image_name_to_index |-> image_name_to_index],
                                 name, usage, replace)
       IN  /\ all_images' = made.all_images
           /\ image_name_to_index' = made.image_name_to_index
           /\ image_handles' = Append(image_handles, made.handle)
    /\ UNCHANGED notImgVars
    /\ UNCHANGED denoiserVars

\* Renderer::get_image_handle(name), for a registered name.
Renderer_get_image_handle(name) == [index |-> image_name_to_index[name]]

\* Renderer::get_image(image_name).
Renderer_get_image_by_name(name) == ImageAt(image_name_to_index[name])

\* Renderer::get_image(handle).
Renderer_get_image(handle) == ImageAt(handle.index)

ImgNext ==
    \E name \in ImageNames, usage \in RendererImageUsages, replace \in BOOLEAN :
        Renderer_create_image(name, usage, replace)

\* ------------------------------------------------------------- DenoiserPass

ACCUMULATION_RENDER_TARGET == "Accumulation target"

DENOISED_SCENE_RENDER_TARGET == "Denoised scene color target"

\* A TextureHandle not yet assigned.
NoTextureHandle == [index |-> -1]

DenoiserInit ==
    /\ denoised_color_target_handle = NoTextureHandle
    /\ accumulation_target_handle = NoTextureHandle
    /\ denoiser_frames = 0
    /\ render_entry_states = [accumulation |-> COMMON, denoised |-> COMMON]
    /\ denoiser_barrier_errors = {}

\* DenoiserPass::create_images_and_framebuffer, called by the constructor: the
\* denoised target, then the accumulation target.
DenoiserPass_create_images_and_framebuffer(replace) ==
    /\ denoised_color_target_handle = NoTextureHandle
    /\ Len(all_images) + 2 <= MaxImages
    /\ LET denoised == CreateImageIn([all_images |-> all_images,
                                      image_name_to_index |-> image_name_to_index],
                                     DENOISED_SCENE_RENDER_TARGET, "RenderTarget", replace)
           accumulation == CreateImageIn(denoised, ACCUMULATION_RENDER_TARGET,
                                         "SampledImage", replace)
       IN  /\ all_images' = accumulation.all_images
           /\ image_name_to_index' = accumulation.image_name_to_index
           /\ image_handles' = image_handles \o <<denoised.handle, accumulation.handle>>
           /\ denoised_color_target_handle' = denoised.handle
           /\ accumulation_target_handle' = accumulation.handle
    /\ UNCHANGED <<denoiser_frames, render_entry_states, denoiser_barrier_errors>>
    /\ UNCHANGED notImgVars

\* DenoiserPass::render: the accumulation image to non-pixel-shader-resource, the
\* render pass; the accumulation image to copy-destination and the denoised image
\* to copy-source, the copy; the denoised image to render-target.
DenoiserPass_render ==
    /\ denoised_color_target_handle # NoTextureHandle
    /\ denoiser_frames < MaxDenoiserFrames
    /\ denoiser_frames' = denoiser_frames + 1
    /\ LET accumulation_image == Renderer_get_image(accumulation_target_handle)
           denoised_image == Renderer_get_image(denoised_color_target_handle)
       IN  /\ render_entry_states' = [accumulation |-> accumulation_image.state,
                                      denoised |-> denoised_image.state]
           /\ denoiser_barrier_errors' = denoiser_barrier_errors
                 \cup ResourceBarrier("accumulation_image", accumulation_image.state,
                                      {"COPY_DEST"}, {"NON_PIXEL_SHADER_RESOURCE"})
                 \cup ResourceBarrier("accumulation_image", {"NON_PIXEL_SHADER_RESOURCE"},
                                      {"NON_PIXEL_SHADER_RESOURCE"}, {"COPY_DEST"})
                 \cup ResourceBarrier("denoised_image", denoised_image.state,
                                      {"RENDER_TARGET"}, {"COPY_SOURCE"})
                 \cup ResourceBarrier("denoised_image", {"COPY_SOURCE"},
                                      {"COPY_SOURCE"}, {"RENDER_TARGET"})
           /\ all_images' = [all_images EXCEPT
                 ![accumulation_target_handle.index + 1].state = {"COPY_DEST"},
                 ![denoised_color_target_handle.index + 1].state = {"RENDER_TARGET"}]
    /\ UNCHANGED <<image_name_to_index, image_handles, denoised_color_target_handle,
                   accumulation_target_handle>>
    /\ UNCHANGED notImgVars

DenoiserNext ==
    \/ \E replace \in BOOLEAN : DenoiserPass_create_images_and_framebuffer(replace)
    \/ DenoiserPass_render

\* ------------------------------------------ D3D12RenderDevice::select_adapter

D3D12_RESOURCE_BINDING_TIER_3 == 3

\* D3D_SHADER_MODEL_5_1 and D3D_SHADER_MODEL_6_0, 0x51 and 0x60.
D3D_SHADER_MODEL_5_1 == 81

D3D_SHADER_MODEL_6_0 == 96

\* An adapter: its vendor, whether D3D12CreateDevice at feature level 12_0
\* succeeds, its resource binding tier, whether the query of the shader model
\* succeeds, and the highest shader model it gives.
Adapters ==
    [VendorId : {"INTEL_PCI_VENDOR_ID", "other"},
     feature_level_12_0 : BOOLEAN,
     ResourceBindingTier : {2, D3D12_RESOURCE_BINDING_TIER_3},
     shader_model_query : {"failed", "ok"},
     HighestShaderModel : {D3D_SHADER_MODEL_5_1, D3D_SHADER_MODEL_6_0}]

AdapterLists == UNION {[1..n -> Adapters] : n \in 0..MaxAdapters}

AdapterInit ==
    /\ adapters = <<>>
    /\ adapter = 0
    /\ device = "null"
    /\ adapter_warnings = 0
    /\ select_state = "not run"

\* Mutant: the resource binding tier is not looked at.
LacksBindingTier_Ignored(cur_adapter) == FALSE

\* d3d12_options.ResourceBindingTier != D3D12_RESOURCE_BINDING_TIER_3.
LacksBindingTier(cur_adapter) ==
    cur_adapter.ResourceBindingTier # D3D12_RESOURCE_BINDING_TIER_3

\* The query of the shader model failed, or gave less than 6.0.
LacksShaderModel(cur_adapter) ==
    IF cur_adapter.shader_model_query = "failed" THEN TRUE
    ELSE cur_adapter.HighestShaderModel < D3D_SHADER_MODEL_6_0

RECURSIVE TryAdapters(_, _, _)
\* The loop of select_adapter from the i-th adapter on: the adapter it stops at
\* (0 for none) and the warnings logged.
TryAdapters(enumerated, i, warned) ==
    IF i > Len(enumerated) THEN [adapter |-> 0, warnings |-> warned]
    ELSE LET cur_adapter == enumerated[i] IN
         IF cur_adapter.VendorId = "INTEL_PCI_VENDOR_ID" /\ Len(enumerated) > 1
         THEN TryAdapters(enumerated, i + 1, warned)
         ELSE IF ~cur_adapter.feature_level_12_0
         THEN TryAdapters(enumerated, i + 1, warned + 1)
         ELSE IF LacksBindingTier(cur_adapter)
         THEN TryAdapters(enumerated, i + 1, warned + 1)
         ELSE IF LacksShaderModel(cur_adapter)
         THEN TryAdapters(enumerated, i + 1, warned + 1)
         ELSE [adapter |-> i, warnings |-> warned]

\* D3D12RenderDevice::select_adapter, EnumAdapters giving these adapters.
SelectAdapter(enumerated) ==
    /\ select_state = "not run"
    /\ adapters' = enumerated
    /\ LET tried == TryAdapters(enumerated, 1, 0) IN
        /\ adapter' = tried.adapter
        /\ adapter_warnings' = tried.warnings
        /\ device' = IF tried.adapter # 0 THEN "D3D12 Device" ELSE "null"
        /\ select_state' = IF tried.adapter # 0 THEN "selected" ELSE "critical_error"
    /\ UNCHANGED notAdapterVars

AdapterNext == \E enumerated \in AdapterLists : SelectAdapter(enumerated)

\* ------------------------------------- the mutexes of D3D12RenderDevice
\* submit_command_list, begin_frame and wait_for_command_lists once more, with
\* every std::lock_guard a step of its own: the lock is taken when the guard is
\* constructed and given back at the end of its block.

LockInit ==
    /\ in_flight_command_lists_mutex = "none"
    /\ done_command_lists_mutex = "none"
    /\ unguarded_accesses = {}

\* Mutant: the block runs without a lock_guard.
LockGuard_Missing(mutex, t) == mutex

\* std::lock_guard l{mutex} constructed by thread t: t holds the mutex.
LockGuard(mutex, t) == t

\* An access by thread t to a queue whose mutex is held as given: what it adds
\* to the accesses made without the mutex.
Access(mutex, t, queue) == IF mutex = t THEN {} ELSE {<<t, queue>>}

\* submit_command_list: std::lock_guard m{in_flight_command_lists_mutex}.
SubmitLock(t) ==
    /\ pc[t] = "submit_enqueue"
    /\ in_flight_command_lists_mutex = "none"
    /\ in_flight_command_lists_mutex' = LockGuard(in_flight_command_lists_mutex, t)
    /\ pc' = [pc EXCEPT ![t] = "submit_locked"]
    /\ UNCHANGED notDevNorLockVars
    /\ UNCHANGED <<done_command_lists_mutex, unguarded_accesses>>
    /\ UNCHANGED <<ret, cmds, next_list, list_name, cur_swapchain_idx, frame_fence_values,
                   frame_fences, direct_command_queue, gpu_retired, command_list_done_fence,
                   in_flight_command_lists, done_command_lists, should_thread_continue,
                   should_continue, wpc, cur_pair, event, event_fences, frames_begun,
                   submit_order, in_flight_order, completed, deleted,
                   last_end_frame_signal>>

\* submit_command_list: emplace the pair, leave the block, notify_one, return.
SubmitEmplace(t) ==
    /\ pc[t] = "submit_locked"
    /\ unguarded_accesses' = unguarded_accesses
            \cup Access(in_flight_command_lists_mutex, t, "in_flight_command_lists")
    /\ in_flight_command_lists' = Append(in_flight_command_lists, cmds[t])
    /\ in_flight_order' = Append(in_flight_order, cmds[t])
    /\ in_flight_command_lists_mutex' =
            IF in_flight_command_lists_mutex = t THEN "none" ELSE in_flight_command_lists_mutex
    /\ cmds' = [cmds EXCEPT ![t] = 0]
    /\ pc' = [pc EXCEPT ![t] = ret[t]]
    /\ UNCHANGED notDevNorLockVars
    /\ UNCHANGED done_command_lists_mutex
    /\ UNCHANGED <<ret, next_list, list_name, cur_swapchain_idx, frame_fence_values,
                   frame_fences, direct_command_queue, gpu_retired, command_list_done_fence,
                   done_command_lists, should_thread_continue, should_continue, wpc,
                   cur_pair, event, event_fences, frames_begun, submit_order, completed,
                   deleted, last_end_frame_signal>>

\* begin_frame: std::lock_guard l{done_command_lists_mutex}.
BeginFrameLock ==
    /\ pc["render"] = "idle"
    /\ frames_begun < MaxFrames
    /\ done_command_lists_mutex = "none"
    /\ done_command_lists_mutex' = LockGuard(done_command_lists_mutex, "render")
    /\ frames_begun' = frames_begun + 1
    /\ pc' = [pc EXCEPT !["render"] = "bf_locked"]
    /\ UNCHANGED notDevNorLockVars
    /\ UNCHANGED <<in_flight_command_lists_mutex, unguarded_accesses>>
    /\ UNCHANGED <<ret, cmds, next_list, list_name, cur_swapchain_idx, frame_fence_values,
                   frame_fences, direct_command_queue, gpu_retired, command_list_done_fence,
                   in_flight_command_lists, done_command_lists, should_thread_continue,
                   should_continue, wpc, cur_pair, event, event_fences, submit_order,
                   in_flight_order, completed, deleted, last_end_frame_signal>>

\* begin_frame, one pass of while(!done_command_lists.empty()): front(), pop(),
\* execute_completion_functions(), delete.
BeginFramePop ==
    /\ pc["render"] = "bf_locked"
    /\ done_command_lists # <<>>
    /\ unguarded_accesses' = unguarded_accesses
            \cup Access(done_command_lists_mutex, "render", "done_command_lists")
    /\ completed' = completed \o CompletionRuns(<<Head(done_command_lists)>>)
    /\ deleted' = deleted \cup {Head(done_command_lists)}
    /\ done_command_lists' = Tail(done_command_lists)
    /\ UNCHANGED notDevNorLockVars
    /\ UNCHANGED <<in_flight_command_lists_mutex, done_command_lists_mutex>>
    /\ UNCHANGED <<pc, ret, cmds, next_list, list_name, cur_swapchain_idx, frame_fence_values,
                   frame_fences, direct_command_queue, gpu_retired, command_list_done_fence,
                   in_flight_command_lists, should_thread_continue, should_continue, wpc,
                   cur_pair, event, event_fences, frames_begun, submit_order,
                   in_flight_order, last_end_frame_signal>>

\* begin_frame: the done queue is found empty and the block is left.
BeginFrameUnlock ==
    /\ pc["render"] = "bf_locked"
    /\ done_command_lists = <<>>
    /\ unguarded_accesses' = unguarded_accesses
            \cup Access(done_command_lists_mutex, "render", "done_command_lists")
    /\ done_command_lists_mutex' =
            IF done_command_lists_mutex = "render" THEN "none" ELSE done_command_lists_mutex
    /\ pc' = [pc EXCEPT !["render"] = "bf_wait"]
    /\ UNCHANGED notDevNorLockVars
    /\ UNCHANGED in_flight_command_lists_mutex
    /\ UNCHANGED <<ret, cmds, next_list, list_name, cur_swapchain_idx, frame_fence_values,
                   frame_fences, direct_command_queue, gpu_retired, command_list_done_fence,
                   in_flight_command_lists, done_command_lists, should_thread_continue,
                   should_continue, wpc, cur_pair, event, event_fences, frames_begun,
                   submit_order, in_flight_order, completed, deleted,
                   last_end_frame_signal>>

\* wait_for_command_lists, the top of the loop: test should_continue, reload it
\* (should_wait_for_cv is never set, so the wait on the condition variable is
\* never entered), then std::lock_guard l{in_flight_command_lists_mutex}.
WorkerLock ==
    /\ wpc = "loop"
    /\ IF ~should_continue
       THEN /\ wpc' = "exited"
            /\ UNCHANGED <<should_continue, in_flight_command_lists_mutex>>
       ELSE /\ in_flight_command_lists_mutex = "none"
            /\ should_continue' = should_thread_continue
            /\ in_flight_command_lists_mutex' =
                    LockGuard(in_flight_command_lists_mutex, "worker")
            /\ wpc' = "locked_in_flight"
    /\ UNCHANGED notDevNorLockVars
    /\ UNCHANGED <<done_command_lists_mutex, unguarded_accesses>>
    /\ UNCHANGED <<pc, ret, cmds, next_list, list_name, cur_swapchain_idx,
                   frame_fence_values, frame_fences, direct_command_queue, gpu_retired,
                   command_list_done_fence, in_flight_command_lists, done_command_lists,
                   should_thread_continue, cur_pair, event, event_fences, frames_begun,
                   submit_order, in_flight_order, completed, deleted,
                   last_end_frame_signal>>

\* wait_for_command_lists, inside the block: the queue is empty (continue), or
\* its front pair is moved out and popped; either way the block is left.
WorkerPop ==
    /\ wpc = "locked_in_flight"
    /\ unguarded_accesses' = unguarded_accesses
            \cup Access(in_flight_command_lists_mutex, "worker", "in_flight_command_lists")
    /\ IF in_flight_command_lists = <<>>
       THEN /\ wpc' = "loop"
            /\ UNCHANGED <<cur_pair, in_flight_command_lists>>
       ELSE /\ cur_pair' = PopInFlight(in_flight_command_lists).pair
            /\ in_flight_command_lists' = PopInFlight(in_flight_command_lists).rest
            /\ wpc' = "set_event"
    /\ in_flight_command_lists_mutex' =
            IF in_flight_command_lists_mutex = "worker" THEN "none"
            ELSE in_flight_command_lists_mutex
    /\ UNCHANGED notDevNorLockVars
    /\ UNCHANGED done_command_lists_mutex
    /\ UNCHANGED <<pc, ret, cmds, next_list, list_name, cur_swapchain_idx,
                   frame_fence_values, frame_fences, direct_command_queue, gpu_retired,
                   command_list_done_fence, done_command_lists, should_thread_continue,
                   should_continue, event, event_fences, frames_begun, submit_order,
                   in_flight_order, completed, deleted, last_end_frame_signal>>

\* wait_for_command_lists after the wait: std::lock_guard l{done_command_lists_mutex}.
WorkerLockDone ==
    /\ wpc = "push"
    /\ done_command_lists_mutex = "none"
    /\ done_command_lists_mutex' = LockGuard(done_command_lists_mutex, "worker")
    /\ wpc' = "locked_done"
    /\ UNCHANGED notDevNorLockVars
    /\ UNCHANGED <<in_flight_command_lists_mutex, unguarded_accesses>>
    /\ UNCHANGED <<pc, ret, cmds, next_list, list_name, cur_swapchain_idx,
                   frame_fence_values, frame_fences, direct_command_queue, gpu_retired,
                   command_list_done_fence, in_flight_command_lists, done_command_lists,
                   should_thread_continue, should_continue, cur_pair, event, event_fences,
                   frames_begun, submit_order, in_flight_order, completed, deleted,
                   last_end_frame_signal>>

\* wait_for_command_lists: emplace the list on the done queue and leave the block.
WorkerEmplace ==
    /\ wpc = "locked_done"
    /\ unguarded_accesses' = unguarded_accesses
            \cup Access(done_command_lists_mutex, "worker", "done_command_lists")
    /\ done_command_lists' = Append(done_command_lists, cur_pair)
    /\ cur_pair' = 0
    /\ done_command_lists_mutex' =
            IF done_command_lists_mutex = "worker" THEN "none" ELSE done_command_lists_mutex
    /\ wpc' = "loop"
    /\ UNCHANGED notDevNorLockVars
    /\ UNCHANGED in_flight_command_lists_mutex
    /\ UNCHANGED <<pc, ret, cmds, next_list, list_name, cur_swapchain_idx,
                   frame_fence_values, frame_fences, direct_command_queue, gpu_retired,
                   command_list_done_fence, in_flight_command_lists,
                   should_thread_continue, should_continue, event, event_fences,
                   frames_begun, submit_order, in_flight_order, completed, deleted,
                   last_end_frame_signal>>

LockRenderNext ==
    \/ BeginFrameLock
    \/ BeginFramePop
    \/ BeginFrameUnlock
    \/ BeginFrameWait
    \/ RenderSceneMain
    \/ EndFrameTransition
    \/ EndFrameSignal
    \/ EndFramePresent
    \/ SubmitExecute("render")
    \/ SubmitSignal("render")
    \/ SubmitLock("render")
    \/ SubmitEmplace("render")

LockWorkerNext ==
    \/ WorkerStart
    \/ WorkerLock
    \/ WorkerPop
    \/ WorkerSetEvent
    \/ WorkerWaitSignaled
    \/ WorkerWaitTimeout
    \/ WorkerLockDone
    \/ WorkerEmplace

NextLocks == LockRenderNext \/ LockWorkerNext \/ GpuStep

\* ---------------------------------------------------------- specifications

Init == DevInit /\ MeshInit /\ MatInit /\ BindInit /\ ResInit /\ DescInit /\ ImgInit /\ DenoiserInit /\ AdapterInit
    /\ LockInit

Next == RenderNext \/ WorkerNext \/ GpuStep

\* The render thread calling render_scene, the completion worker and the GPU.
Spec == Init /\ [][Next]_vars

\* The same, with every thread and the GPU scheduled again and again: the
\* operating system runs a runnable thread, the GPU retires queued work.
FairSpec ==
    /\ Init
    /\ [][Next]_vars
    /\ WF_vars(RenderNext)
    /\ WF_vars(WorkerNext)
    /\ WF_vars(GpuStep)

NextConcurrent == (\E t \in Threads : TaskNext(t)) \/ WorkerNext \/ GpuStep

\* Two threads calling submit_command_list, the completion worker and the GPU.
SpecConcurrent == Init /\ [][NextConcurrent]_vars

\* The command lists the other thread submits meanwhile.
ListsBeforeShutdown ==
    Cardinality({l \in Lists : list_name'[l] = "Task Command List"}) <= MaxShutdownLists

NextShutdown ==
    \/ DestructorNext
    \/ TaskNext("loader") /\ ListsBeforeShutdown
    \/ WorkerNext
    \/ GpuStep

\* One thread destroying the device while another one submits command lists; the
\* completion worker is scheduled again and again, the GPU need not make progress.
SpecShutdown ==
    /\ Init
    /\ [][NextShutdown]_vars
    /\ WF_vars(WorkerNext)

\* The command lists submitted between the create_ calls.
ListsBetweenCreates == next_list' <= MaxCreateLists

NextCreate ==
    \/ CreateNext
    \/ TaskNext("loader") /\ ListsBetweenCreates

\* One thread creating resources and pipelines, taking and returning staging
\* buffers and submitting command lists.
SpecCreate == Init /\ [][NextCreate]_vars

\* One thread creating and destroying framebuffers.
SpecDescriptors == Init /\ [][DescNext]_vars

\* One thread creating the images of a Renderer.
SpecImages == Init /\ [][ImgNext]_vars

\* One thread creating the images of a Renderer, among them those of a
\* DenoiserPass, and calling the render of the pass.
SpecDenoiser == Init /\ [][ImgNext \/ DenoiserNext]_vars

\* The render thread, the completion worker and the GPU, every lock a step.
SpecLocks == Init /\ [][NextLocks]_vars

\* The constructor of the device choosing its adapter.
SpecAdapter == Init /\ [][AdapterNext]_vars

\* One thread using a MeshDataStore.
SpecMesh == Init /\ [][MeshNext]_vars

\* One thread allocating from a MaterialDataBuffer.
SpecMaterial == Init /\ [][MatNext]_vars

\* One thread constructing a builder, binding resources and calling build.
SpecBind == Init /\ [][BindNext]_vars

\* ------------------------------------------------------------------ claims

Executed(l) == l \in Range(completed)

FenceSignaled(l) == command_list_done_fence[l] >= CPU_FENCE_SIGNALED

\* C1: a list's completion functions never run before its fence is signaled, and
\* the worker hands a list to the done queue only when its fence is signaled (a
\* wait that timed out does not make the list eligible).
C1_CompletionOnlyAfterFence ==
    /\ \A l \in Lists : Executed(l) => FenceSignaled(l)
    /\ wpc = "push" => FenceSignaled(cur_pair)

\* C2: every submitted list's completion functions run exactly once: never twice;
\* again and again every list that has entered the in-flight queue has been handed
\* to the done queue by the worker (after its wait ended); and each begin_frame call
\* runs the completion functions of every list that is in the done queue by then.
C2_ExactlyOnce ==
    /\ [](\A l \in Lists : Count(completed, l) <= 1)
    /\ []<>(\A l \in Range(in_flight_order) :
                l \in Range(done_command_lists) \/ Executed(l))
    /\ [][frames_begun' # frames_begun
            => \A l \in Range(done_command_lists) : Executed(l)']_vars

C2_Witness ==
    /\ Len(completed) >= 3
    /\ \A l \in Range(completed) : Count(completed, l) = 1 /\ l \in deleted

\* C3: completion functions run in submission order: when B was submitted after A
\* and B's have run, A's have run, and earlier.
C3_CompletionInSubmissionOrder ==
    \A i, j \in DOMAIN submit_order :
        (i < j /\ Executed(submit_order[j]))
            => /\ Executed(submit_order[i])
               /\ Pos(completed, submit_order[i]) < Pos(completed, submit_order[j])

C3_Witness ==
    /\ Len(completed) >= 2
    /\ Len(done_command_lists) >= 1
    /\ completed[1] = submit_order[1]
    /\ completed[2] = submit_order[2]

\* C4: begin_frame advances a slot's fence value and puts work on the queue only
\* when the slot's fence has reached the value the slot's previous end_frame
\* signaled; below the value it expects, begin_frame cannot proceed.
C4_SlotReuseGatedByFence ==
    /\ [](\A i \in Slots :
            frame_fence_values[i] # last_end_frame_signal[i]
                => frame_fences[i] >= last_end_frame_signal[i])
    /\ []((pc["render"] = "bf_wait"
            /\ frame_fences[cur_swapchain_idx] < frame_fence_values[cur_swapchain_idx])
                => ~ENABLED BeginFrameWait)
    /\ [][(pc["render"] # "ef_present"
            /\ (frame_fence_values' # frame_fence_values
                \/ direct_command_queue' # direct_command_queue))
                => frame_fences[cur_swapchain_idx]
                       >= last_end_frame_signal[cur_swapchain_idx]]_vars

\* begin_frame is blocked on a slot whose previous frame the GPU has not finished.
C4_Witness ==
    /\ pc["render"] = "bf_wait"
    /\ frames_begun > NumFrames
    /\ frame_fences[cur_swapchain_idx] < frame_fence_values[cur_swapchain_idx]

\* C10: the steps of two concurrent submit_command_list calls are not interleaved,
\* and lists enter the in-flight queue in the order they were executed on the queue.
C10_SubmissionIsSerialized ==
    /\ \A t, u \in Threads :
          (t # u /\ pc[t] \in {"submit_signal", "submit_enqueue"})
              => pc[u] \notin {"submit_signal", "submit_enqueue"}
    /\ \A i, j \in DOMAIN in_flight_order :
          i < j => Pos(submit_order, in_flight_order[i]) < Pos(submit_order, in_flight_order[j])

\* ---- MeshDataStore

Disjoint(a, n, b, m) == a + n <= b \/ b + m <= a

SameRound(i, j) == meshes[i].round = meshes[j].round

\* C5 as stated: within one begin/end pair the vertex ranges and the index ranges
\* of the returned meshes are pairwise disjoint, and first_vertex and first_index
\* are strictly increasing in call order.
C5_RangesStrictlyIncreasing ==
    \A i, j \in DOMAIN meshes :
        (i < j /\ SameRound(i, j))
            => /\ Disjoint(meshes[i].first_vertex, meshes[i].num_vertices,
                           meshes[j].first_vertex, meshes[j].num_vertices)
               /\ Disjoint(meshes[i].first_index, meshes[i].num_indices,
                           meshes[j].first_index, meshes[j].num_indices)
               /\ meshes[i].first_vertex < meshes[j].first_vertex
               /\ meshes[i].first_index < meshes[j].first_index

\* C5 as amended: the ranges are pairwise disjoint, first_vertex and first_index
\* never decrease in call order, and each increases strictly past a mesh that has
\* at least one vertex, respectively one index.
C5_RangesDisjointAndIncreasing ==
    \A i, j \in DOMAIN meshes :
        (i < j /\ SameRound(i, j))
            => /\ Disjoint(meshes[i].first_vertex, meshes[i].num_vertices,
                           meshes[j].first_vertex, meshes[j].num_vertices)
               /\ Disjoint(meshes[i].first_index, meshes[i].num_indices,
                           meshes[j].first_index, meshes[j].num_indices)
               /\ meshes[i].first_vertex <= meshes[j].first_vertex
               /\ meshes[i].first_index <= meshes[j].first_index
               /\ meshes[i].num_vertices > 0 => meshes[i].first_vertex < meshes[j].first_vertex
               /\ meshes[i].num_indices > 0 => meshes[i].first_index < meshes[j].first_index

C5_Witness ==
    /\ Len(meshes) >= 3
    /\ SameRound(1, 3)
    /\ meshes[1].num_vertices > 0 /\ meshes[1].num_indices > 0
    /\ meshes[2].num_vertices = 0 /\ meshes[2].num_indices = 0
    /\ meshes[3].first_vertex > meshes[1].first_vertex

RECURSIVE VerticesBefore(_)
\* The number of vertices added by the add_mesh calls before call j.
VerticesBefore(j) == IF j <= 1 THEN 0 ELSE VerticesBefore(j - 1) + meshes[j - 1].num_vertices

\* C6: the index buffer holds k + V for each supplied index k, V being the number
\* of vertices added by all earlier calls, which is the returned first_vertex.
C6_IndicesOffsetByVertexBase ==
    \A j \in DOMAIN meshes :
        /\ meshes[j].first_vertex = VerticesBefore(j)
        /\ \A k \in DOMAIN meshes[j].indices :
              index_buffer[meshes[j].first_index + k] = meshes[j].indices[k] + VerticesBefore(j)

\* {0,1,2} added after a 10-vertex mesh reads back as {10,11,12}.
C6_Witness ==
    /\ Len(meshes) = 2
    /\ meshes[1].num_vertices = 10
    /\ meshes[2].indices = <<0, 1, 2>>
    /\ SubSeq(index_buffer, meshes[2].first_index + 1, meshes[2].first_index + 3)
           = <<10, 11, 12>>

\* ---- MaterialDataBuffer

ByteRangeStart(m) == AtByteOffset(m.index, m.struct_size)

ByteRangeEnd(m) == AtByteOffset(m.index + 1, m.struct_size)

\* C7: the byte ranges of the handles returned by get_next_free_material, for any
\* mix of struct sizes, are pairwise non-overlapping.
C7_MaterialRangesDisjoint ==
    \A i, j \in DOMAIN materials :
        i < j => \/ ByteRangeEnd(materials[i]) <= ByteRangeStart(materials[j])
                 \/ ByteRangeEnd(materials[j]) <= ByteRangeStart(materials[i])

C7_Witness ==
    /\ Len(materials) >= 3
    /\ Cardinality({materials[i].struct_size : i \in DOMAIN materials}) >= 3

\* C8: the byte offset a returned handle designates is a multiple of the struct's
\* size and is not below the number of bytes allocated before the call.
C8_MaterialOffsetAligned ==
    \A i \in DOMAIN materials :
        /\ ByteRangeStart(materials[i]) % materials[i].struct_size = 0
        /\ ByteRangeStart(materials[i]) >= materials[i].old_num_allocated_bytes

\* A struct placed after bytes that do not end on a multiple of its size.
C8_Witness ==
    \E i \in DOMAIN materials :
        /\ materials[i].old_num_allocated_bytes % materials[i].struct_size # 0
        /\ ByteRangeStart(materials[i]) > materials[i].old_num_allocated_bytes

\* ---- D3D12BindGroupBuilder and D3D12MaterialBuilder

\* The names the constructed builder declares.
DeclaredSlots ==
    IF builder = "D3D12MaterialBuilder" THEN DOMAIN descriptors
    ELSE DOMAIN root_descriptor_descriptions \cup DOMAIN descriptor_table_descriptor_mappings

\* A declared shader-resource slot: a root descriptor of that type whose index is
\* below the limit of 32 and not that of a descriptor table, or an SRV descriptor.
ShaderResourceSlot(name) ==
    \/ /\ builder = "D3D12BindGroupBuilder"
       /\ name \in DOMAIN root_descriptor_descriptions
       /\ root_descriptor_descriptions[name].type = "ShaderResource"
       /\ root_descriptor_descriptions[name].idx < MaxRootDescriptors
       /\ \A idx \in DOMAIN descriptor_table_handles :
             idx < MaxRootParameters /\ idx # root_descriptor_descriptions[name].idx
    \/ /\ builder = "D3D12MaterialBuilder"
       /\ name \in DOMAIN descriptors
       /\ descriptors[name].type = "SRV"

Unbound(name) == name \notin DOMAIN bound_buffers /\ name \notin DOMAIN bound_images

\* Nothing was written for the slot: no address in its root parameter, no view.
SlotLeftEmpty(name) ==
    /\ name \in DOMAIN root_descriptor_descriptions
          => root_parameters[root_descriptor_descriptions[name].idx].address = 0
    /\ name \in DOMAIN descriptors => views[name] = <<>>

\* C9: build() on a builder whose one declared slot is a shader-resource slot with
\* no resource bound to it returns a bind group, does not abort, leaves the slot
\* empty and logs exactly one warning.
C9_UnboundSlotBuildsWithOneWarning ==
    \A name \in SlotNames :
        (build_called /\ DeclaredSlots = {name} /\ ShaderResourceSlot(name) /\ Unbound(name))
            => /\ build_result # "none"
               /\ ~aborted
               /\ SlotLeftEmpty(name)
               /\ warnings = 1

\* A root-descriptor slot of a D3D12BindGroupBuilder whose index is below the limit
\* of 32 and not that of a descriptor table.
RootDescriptorSlot(name) ==
    /\ builder = "D3D12BindGroupBuilder"
    /\ name \in DOMAIN root_descriptor_descriptions
    /\ root_descriptor_descriptions[name].idx < MaxRootDescriptors
    /\ \A idx \in DOMAIN descriptor_table_handles :
          idx < MaxRootParameters /\ idx # root_descriptor_descriptions[name].idx

\* The last binding made for the name was set_image(name, image).
ImageBound(name, image) ==
    \/ name \in DOMAIN bound_images /\ bound_images[name] = <<image>>
    \/ /\ name \in DOMAIN bound_buffers
       /\ bound_buffers[name] \notin BufferResources
       /\ bound_buffers[name] = <<image>>

\* C15: build() on a D3D12BindGroupBuilder whose one declared slot is a root
\* descriptor bound with set_image to one image returns a bind group whose root
\* parameter holds the address of that image, and logs no warning.
C15_ImageBindingSatisfiesSlot ==
    \A name \in SlotNames, image \in ImageResources :
        (build_called /\ DeclaredSlots = {name} /\ RootDescriptorSlot(name)
            /\ ImageBound(name, image))
            => /\ build_result = "bind_group"
               /\ ~aborted
               /\ root_parameters[root_descriptor_descriptions[name].idx].address
                      = GetGPUVirtualAddress(image)
               /\ warnings = 0

\* ---- shutdown of the completion worker

\* C11: once should_thread_continue is false the worker terminates, also when the
\* fence it waits on never signals and when the in-flight queue is empty; and it
\* does so within two passes of its loop: a pass begun with the flag false either
\* leaves the loop or leaves should_continue false, and a pass begun with
\* should_continue false leaves the loop.
C11_WorkerTerminatesAfterStop ==
    /\ (~should_thread_continue) ~> (wpc = "exited")
    /\ [][(~should_thread_continue /\ WorkerLoop)
              => (wpc' = "exited" \/ ~should_continue')]_vars
    /\ [][(~should_continue /\ WorkerLoop) => wpc' = "exited"]_vars

\* The worker has left its loop after giving up on a list whose fence is not
\* signaled, and the destructor's join has returned.
C11_Witness ==
    /\ pc["render"] = "destroyed"
    /\ wpc = "exited"
    /\ \E l \in Range(done_command_lists) : ~FenceSignaled(l)

\* ---- creation of resources and pipelines

CreateCallOf(calls) == create_calls' = create_calls + 1 /\ created'.call \in calls

\* C13: when the allocation fails, create_buffer and create_image return an empty
\* result, log an error, and leave the staging-buffer pool, the in-flight and done
\* queues and the frame fence values as they were.
C13_FailedCreateReturnsEmpty ==
    /\ []((created.call \in {"create_buffer", "create_image"} /\ created.failed)
              => created.result = Empty)
    /\ [][(CreateCallOf({"create_buffer", "create_image"}) /\ created'.failed)
              => /\ errors_logged' = errors_logged + 1
                 /\ UNCHANGED <<staging_buffers, staging_in_use, in_flight_command_lists,
                                done_command_lists, frame_fence_values, frame_fences,
                                direct_command_queue, rtv_allocator, dsv_allocator>>]_vars

\* A create_image that failed while a staging buffer was in the pool and a
\* command list in flight.
C13_Witness ==
    /\ created.call = "create_image"
    /\ created.failed
    /\ created.result = Empty
    /\ staging_buffers # <<>>
    /\ in_flight_command_lists # <<>>

\* C14: when the creation of the pipeline state fails, create_render_pipeline_state
\* and create_compute_pipeline_state return an empty result, not a pipeline
\* object without a pipeline state.
C14_FailedPipelineReturnsEmpty ==
    (created.call \in {"create_compute_pipeline_state", "create_render_pipeline_state"}
        /\ created.failed)
            => created.result = Empty

\* ---- DescriptorAllocator

\* The render target view handles held: by the swapchain framebuffers, then by
\* the framebuffers alive.
RECURSIVE RtvHandlesOf(_)
RtvHandlesOf(fbs) ==
    IF fbs = <<>> THEN SwapchainAllocator.handles
    ELSE RtvHandlesOf(SubSeq(fbs, 1, Len(fbs) - 1)) \o fbs[Len(fbs)].rtv_handles

DsvHandlesOf(fbs) ==
    SelectSeq([k \in DOMAIN fbs |-> fbs[k].dsv_handle], LAMBDA h : h # NoHandle)

NoHandleTwice(handles) ==
    \A i, j \in DOMAIN handles : i # j => handles[i] # handles[j]

\* C16: with every handle returned once for each time it was acquired,
\* get_next_free_descriptor never returns a handle that is outstanding: no two
\* of the handles held by framebuffers are the same, and none of them is in
\* available_handles or at or above the cursor.
C16_NoDoubleAllocation ==
    /\ NoHandleTwice(RtvHandlesOf(framebuffers) \o rtv_allocator.available_handles)
    /\ NoHandleTwice(DsvHandlesOf(framebuffers) \o dsv_allocator.available_handles)
    /\ \A h \in Range(RtvHandlesOf(framebuffers)) : h < rtv_allocator.next_free_descriptor
    /\ \A h \in Range(DsvHandlesOf(framebuffers)) : h < dsv_allocator.next_free_descriptor

\* A framebuffer holds a handle that an earlier framebuffer returned, while
\* another framebuffer is alive.
C16_Witness ==
    /\ Len(framebuffers) = MaxFramebuffers
    /\ \E k \in DOMAIN framebuffers : \E i \in DOMAIN framebuffers[k].rtv_handles :
          framebuffers[k].rtv_handles[i] + 1 < rtv_allocator.next_free_descriptor
    /\ rtv_allocator.available_handles # <<>>
    /\ \E k \in DOMAIN framebuffers : framebuffers[k].dsv_handle # NoHandle

\* ---- the images of the Renderer

FrameOps ==
    SelectSeq(direct_command_queue,
              LAMBDA o : /\ o.op # "signal_list"
                         /\ o.op = "execute" => list_name[o.list] # "Task Command List")

\* The names of the three command lists of a frame, in order.
FrameLists ==
    <<"Transition Swapchain to Render Target", "Main Render Command List",
      "Transition Swapchain to Presentable">>

OpsPerFrame == Len(FrameLists) + 2

\* C18: the queue operations of the n-th frame are, in this order, the transition
\* of the swapchain image to render target, the main render command list, the
\* transition to presentable, the signal of the slot's frame fence with the value
\* this frame's begin_frame gave the slot (its number of uses so far), and
\* present; and a frame fence has a value only once the GPU has gone through the
\* signal that gives it, which is behind the frame's last command list.
C18_FrameQueueOrder ==
    /\ \A k \in DOMAIN FrameOps :
          LET o == FrameOps[k]
              frame == (k - 1) \div OpsPerFrame
              phase == ((k - 1) % OpsPerFrame) + 1
          IN  IF phase <= Len(FrameLists)
              THEN o.op = "execute" /\ list_name[o.list] = FrameLists[phase]
              ELSE IF phase = Len(FrameLists) + 1
              THEN /\ o.op = "signal_frame"
                   /\ o.idx = frame % NumFrames
                   /\ o.value = (frame \div NumFrames) + 1
              ELSE o.op = "present" /\ o.idx = frame % NumFrames
    /\ \A k \in DOMAIN direct_command_queue :
          LET o == direct_command_queue[k] IN
          (o.op = "signal_frame" /\ frame_fences[o.idx] >= o.value)
              => /\ k <= gpu_retired
                 /\ \E j \in 1..(k - 1) :
                       /\ direct_command_queue[j].op = "execute"
                       /\ list_name[direct_command_queue[j].list] = FrameLists[Len(FrameLists)]
                       /\ \A i \in (j + 1)..(k - 1) : direct_command_queue[i].op = "signal_list"

\* Every frame has been presented and a slot's fence has the value of its second
\* use.
C18_Witness ==
    /\ pc["render"] = "idle"
    /\ frames_begun = MaxFrames
    /\ Len(FrameOps) = MaxFrames * OpsPerFrame
    /\ frame_fences[0] = 2

\* ---- the resource states of the mesh buffers

\* C19: every transition recorded for the vertex and the index buffer has the
\* state the buffer is in as its before-state, the states tracked from those the
\* buffers were created in; both buffers are in copy-destination state while
\* meshes are added and in their bindable state after end_adding_meshes.
C19_MeshBarriersMatchState ==
    /\ barrier_errors = {}
    /\ adding_meshes
          => vertex_buffer_state = {"COPY_DEST"} /\ index_buffer_state = {"COPY_DEST"}
    /\ (~adding_meshes /\ mesh_round > 0)
          => /\ vertex_buffer_state = {"VERTEX_AND_CONSTANT_BUFFER"}
             /\ index_buffer_state = {"INDEX_BUFFER"}

\* ---- the resource states of the images of the DenoiserPass

\* C20: on every frame, the first included, each barrier DenoiserPass::render
\* records has the state the image is in as its before-state, and when render
\* returns the accumulation image is in copy-destination state and the denoised
\* image in render-target state, the states they had when render was entered.
C20_DenoiserBarriersMatchState ==
    denoiser_frames > 0
        => /\ denoiser_barrier_errors = {}
           /\ Renderer_get_image(accumulation_target_handle).state = {"COPY_DEST"}
           /\ Renderer_get_image(denoised_color_target_handle).state = {"RENDER_TARGET"}
           /\ render_entry_states = [accumulation |-> {"COPY_DEST"},
                                     denoised |-> {"RENDER_TARGET"}]

\* ---- create_framebuffer

\* The handles of the allocator that are held: given out and not returned.
Outstanding(allocator) == allocator.next_free_descriptor - Len(allocator.available_handles)

\* C21: create_framebuffer with k render targets takes k render target view
\* descriptors, and one depth stencil view descriptor if and only if a depth target
\* is given; the framebuffer it returns holds k render target view handles, no two
\* the same, and a depth stencil view handle if and only if a depth target is
\* given. It returns the framebuffer also when widths or heights differ: each
\* difference is logged.
C21_FramebufferTakesItsDescriptors ==
    /\ [](created_framebuffer.framebuffer # Empty
            => LET fb == created_framebuffer.framebuffer
                   k == Len(created_framebuffer.render_targets)
               IN  /\ Len(fb.rtv_handles) = k
                   /\ \A i, j \in 1..Len(fb.rtv_handles) :
                         i # j => fb.rtv_handles[i] # fb.rtv_handles[j]
                   /\ fb.dsv_handle # NoHandle <=> created_framebuffer.depth_target # NoImage)
    /\ [][Len(framebuffers') = Len(framebuffers) + 1
            => /\ created_framebuffer'.framebuffer # Empty
               /\ Outstanding(rtv_allocator') - Outstanding(rtv_allocator)
                      = Len(created_framebuffer'.render_targets)
               /\ Outstanding(dsv_allocator') - Outstanding(dsv_allocator)
                      = IF created_framebuffer'.depth_target # NoImage THEN 1 ELSE 0
               /\ framebuffers'[Len(framebuffers')].rtv_handles
                      = created_framebuffer'.framebuffer.rtv_handles
               /\ framebuffers'[Len(framebuffers')].dsv_handle
                      = created_framebuffer'.framebuffer.dsv_handle]_vars

\* A framebuffer returned for two render targets and a depth target whose widths
\* and heights differ.
C21_Witness ==
    /\ created_framebuffer.framebuffer # Empty
    /\ Len(created_framebuffer.render_targets) = 2
    /\ created_framebuffer.render_targets[1] # created_framebuffer.render_targets[2]
    /\ created_framebuffer.depth_target # NoImage
    /\ created_framebuffer.errors >= 2
    /\ Len(created_framebuffer.framebuffer.rtv_handles) = 2
    /\ created_framebuffer.framebuffer.dsv_handle # NoHandle

\* ---- validation in D3D12MaterialBuilder

\* A call that the checks of set_buffer, set_image and set_image_array are about.
UndeclaredOrEmpty(name, images) == name \notin DOMAIN descriptors \/ images = <<>>

\* C22: with validation disabled, set_buffer, set_image and set_image_array with
\* a name that is not declared, or with an empty image array, do not abort and
\* record the binding under the name; with validation enabled the same calls
\* fail an assertion and record nothing.
C22_ChecksOnlyUnderValidation ==
    /\ [][\A name \in BoundNames, buffer \in BufferResources :
            (D3D12MaterialBuilder_set_buffer(name, buffer) /\ name \notin DOMAIN descriptors)
                => IF should_do_validation
                   THEN aborted' /\ bound_buffers' = bound_buffers
                   ELSE /\ ~aborted'
                        /\ name \in DOMAIN bound_buffers'
                        /\ bound_buffers'[name] = buffer]_vars
    /\ [][\A name \in BoundNames,
             images \in ImageArrays \cup {<<image>> : image \in ImageResources} :
            (D3D12MaterialBuilder_set_image_array(name, images) /\ UndeclaredOrEmpty(name, images))
                => IF should_do_validation
                   THEN aborted' /\ bound_images' = bound_images
                   ELSE /\ ~aborted'
                        /\ name \in DOMAIN bound_images'
                        /\ bound_images'[name] = images]_vars
    /\ []((builder = "D3D12MaterialBuilder" /\ ~should_do_validation) => ~aborted)

\* With validation disabled, an empty image array is bound under a name that is
\* not declared, and a buffer under another.
C22_Witness ==
    /\ builder = "D3D12MaterialBuilder"
    /\ ~should_do_validation
    /\ ~aborted
    /\ \E name \in DOMAIN bound_images :
          name \notin DOMAIN descriptors /\ bound_images[name] = <<>>
    /\ \E name \in DOMAIN bound_buffers : name \notin DOMAIN descriptors

\* ---- select_adapter

\* The adapter meets every requirement of select_adapter.
Qualifies(a) ==
    /\ a.feature_level_12_0
    /\ a.ResourceBindingTier = D3D12_RESOURCE_BINDING_TIER_3
    /\ a.shader_model_query = "ok"
    /\ a.HighestShaderModel >= D3D_SHADER_MODEL_6_0

\* C23: the adapter select_adapter chooses supports feature level 12_0, resource
\* binding tier 3 and a highest shader model of at least 6.0, whatever adapters
\* are enumerated; when none is chosen the fatal error is raised.
C23_ChosenAdapterQualifies ==
    /\ select_state = "selected"
          => /\ adapter \in DOMAIN adapters
             /\ device # "null"
             /\ Qualifies(adapters[adapter])
    /\ select_state = "critical_error" => adapter = 0 /\ device = "null"

\* A qualifying adapter was chosen after one without binding tier 3 was ignored.
C23_Witness ==
    /\ select_state = "selected"
    /\ adapter = 2
    /\ adapters[1].VendorId = "other"
    /\ adapters[1].feature_level_12_0
    /\ adapters[1].ResourceBindingTier # D3D12_RESOURCE_BINDING_TIER_3
    /\ adapter_warnings = 1

\* C24: if an enumerated adapter, integrated or not, meets every requirement,
\* select_adapter chooses an adapter and does not raise the fatal error; the
\* adapter chosen is an integrated one exactly when no other adapter qualifies.
C24_IntegratedOnlyAsFallback ==
    (select_state # "not run" /\ \E i \in DOMAIN adapters : Qualifies(adapters[i]))
        => /\ select_state = "selected"
           /\ adapters[adapter].VendorId = "INTEL_PCI_VENDOR_ID"
                 <=> ~\E i \in DOMAIN adapters :
                        adapters[i].VendorId = "other" /\ Qualifies(adapters[i])

\* ---- MeshDataStore cursors

\* C25: after any sequence of add_mesh calls the write cursors stay inside the
\* shared buffers: next_free_vertex_byte is at most the size of the vertex
\* buffer, next_index_offset * 4 is at most the size of the index buffer, and no
\* add_mesh has written an index past the end of the index buffer.
C25_CursorsInsideBuffers ==
    /\ next_free_vertex_byte <= STATIC_MESH_VERTEX_BUFFER_SIZE
    /\ next_index_offset * SizeofUint32 <= STATIC_MESH_INDEX_BUFFER_SIZE
    /\ Len(index_buffer) * SizeofUint32 <= STATIC_MESH_INDEX_BUFFER_SIZE

\* ---- get_staging_buffer

\* The pool without its k-th buffer, the others in their order.
WithoutBuffer(pool, k) ==
    [j \in 1..(Len(pool) - 1) |-> IF j < k THEN pool[j] ELSE pool[j + 1]]

\* What get_staging_buffer(num_bytes) is to do.
TakesSmallestFit(num_bytes) ==
    LET fits == {k \in DOMAIN staging_buffers : staging_buffers[k] >= num_bytes} IN
    IF fits # {}
    THEN /\ staging_buffer_idx' = staging_buffer_idx
         /\ \E k \in fits :
              /\ \A j \in fits : staging_buffers[k] <= staging_buffers[j]
              /\ staging_in_use' = Append(staging_in_use, staging_buffers[k])
              /\ staging_buffers' = WithoutBuffer(staging_buffers, k)
    ELSE /\ staging_buffers' = staging_buffers
         /\ \/ /\ staging_in_use' = Append(staging_in_use, num_bytes)
               /\ staging_buffer_idx' = staging_buffer_idx + 1
            \/ /\ staging_in_use' = staging_in_use
               /\ staging_buffer_idx' = staging_buffer_idx
               /\ errors_logged' = errors_logged + 1

\* C26: get_staging_buffer(n) hands out, and removes from the pool, the smallest
\* pooled buffer of at least n bytes, leaving the other pooled buffers as they
\* were; only when no pooled buffer is big enough does it create a buffer, of
\* exactly n bytes (or log an error when the creation fails); every staging
\* buffer created is either in the pool or handed out, never both.
C26_StagingBufferBestFit ==
    /\ [](Len(staging_buffers) + Len(staging_in_use) = staging_buffer_idx)
    /\ [][\A num_bytes \in BufferSizes, failed \in BOOLEAN :
            GetStagingBuffer(num_bytes, failed) => TakesSmallestFit(num_bytes)]_vars

\* A request for 64 bytes took the 64-byte buffer pooled behind a 256-byte one.
C26_Witness ==
    /\ staging_buffers = <<256>>
    /\ staging_in_use = <<64>>
    /\ staging_buffer_idx = 2

\* ---- the mutexes

LockThreads == Threads \cup {"worker"}

\* C27: no thread holds in_flight_command_lists_mutex and
\* done_command_lists_mutex together; the worker holds neither from
\* SetEventOnCompletion to the return of WaitForSingleObject; every access to a
\* queue is made by the holder of that queue's mutex; and the holder of a mutex
\* is inside the block of its lock_guard, which it leaves without taking
\* another lock, so no thread waits for a mutex whose holder waits too.
C27_NoDeadlockOnMutexes ==
    /\ \A t \in LockThreads :
         ~(in_flight_command_lists_mutex = t /\ done_command_lists_mutex = t)
    /\ wpc \in {"set_event", "wait"}
          => in_flight_command_lists_mutex # "worker" /\ done_command_lists_mutex # "worker"
    /\ unguarded_accesses = {}
    /\ in_flight_command_lists_mutex = "worker" <=> wpc = "locked_in_flight"
    /\ done_command_lists_mutex = "worker" <=> wpc = "locked_done"
    /\ \A t \in Threads : in_flight_command_lists_mutex = t <=> pc[t] = "submit_locked"
    /\ done_command_lists_mutex = "render" <=> pc["render"] = "bf_locked"

\* The render thread holds the done mutex while draining, the worker waits on a
\* fence with a list in hand, and a list has already been deleted.
C27_Witness ==
    /\ done_command_lists_mutex = "render"
    /\ done_command_lists # <<>>
    /\ wpc = "wait"
    /\ cur_pair # 0
    /\ deleted # {}

\* ---- where a command list is

\* In how many places list l is: the in-flight queue, the worker's local pair,
\* the done queue, the lists deleted.
Places(l) ==
    Count(in_flight_command_lists, l) + (IF cur_pair = l THEN 1 ELSE 0)
        + Count(done_command_lists, l) + (IF l \in deleted THEN 1 ELSE 0)

\* C28: in every interleaving a list that submit_command_list has put on the
\* in-flight queue is in exactly one place (in-flight queue, the worker's pair,
\* done queue, deleted) and a list not yet put there is in none; a list is
\* deleted only by begin_frame, under its lock, as it takes it from the front
\* of the done queue.
C28_ListInOnePlace ==
    /\ [](\A l \in Lists : Places(l) = (IF l \in Range(in_flight_order) THEN 1 ELSE 0))
    /\ [][deleted' # deleted
            => /\ pc["render"] = "bf_locked"
               /\ done_command_lists # <<>>
               /\ deleted' = deleted \cup {Head(done_command_lists)}
               /\ done_command_lists' = Tail(done_command_lists)
               /\ Head(done_command_lists) \notin Range(in_flight_command_lists')
               /\ Head(done_command_lists) # cur_pair']_vars

\* One list deleted, one on the done queue, one with the worker and one on the
\* in-flight queue.
C28_Witness ==
    /\ deleted # {}
    /\ done_command_lists # <<>>
    /\ cur_pair # 0
    /\ in_flight_command_lists # <<>>

====
